---- MODULE Spec2Model ----
(***************************************************************************)
(* Model of the Steam plugin of allow2automate-steam (the plugin factory   *)
(* in src/src/components/TabContent.js, lines 431-896): the plugin state,  *)
(* the lifecycle entry points, the event listeners and the request         *)
(* handlers, with every await on the agent service as a suspension point.  *)
(*                                                                         *)
(* An optional JavaScript value (a property that may be undefined) is a    *)
(* set with at most one element: {} is undefined, {v} is the value v.      *)
(* A process name is the sequence of its characters.                       *)
(***************************************************************************)
EXTENDS Integers, Sequences, FiniteSets, TLC

\* ------------------------------------------------------------------ bounds
MaxAuthOps == 3
MaxDiscovered == 1
MaxUnlinkedOps == 3
MaxViolationEvents == 2
MaxDetectedEvents == 1
MaxSettingsUpdates == 2
MaxLogEvents == 102
MaxEventPatches == 1
MaxRequests == 2
MaxConfigureOps == 3
MaxLibOps == 4
MaxFilterOps == 3
MaxEnableOps == 3

\* --------------------------------------------------------- program constants
ViolationCap == 100
DefaultCheckInterval == 30000
DefaultViolationLimit == 50

\* ------------------------------------------------------------ the environment
Null == "null"
Agents == {"A1", "A2", "A3"}
Subjects == {"S1", "S2"}

\* What the agent service reports for each agent (listAgents, getAgent,
\* agentDiscovered): A3 runs a platform outside the plugin's table.
PlatformOf == [a \in Agents |-> CASE a = "A1" -> {"win32"}
                                  [] a = "A2" -> {"linux"}
                                  [] OTHER -> {"freebsd"}]
HostOf == [a \in Agents |-> CASE a = "A1" -> "h1"
                              [] a = "A2" -> "h2"
                              [] OTHER -> "h3"]
ServiceAgent(a) == [id |-> a, hostname |-> HostOf[a], platform |-> PlatformOf[a]]

\* ---------------------------------------------------------------- strings
UpperChars == <<"A","B","C","D","E","F","G","H","I","J","K","L","M",
                "N","O","P","Q","R","S","T","U","V","W","X","Y","Z">>
LowerChars == <<"a","b","c","d","e","f","g","h","i","j","k","l","m",
                "n","o","p","q","r","s","t","u","v","w","x","y","z">>
ToLowerChar(c) ==
    IF \E i \in 1..26 : UpperChars[i] = c
    THEN LowerChars[CHOOSE i \in 1..26 : UpperChars[i] = c]
    ELSE c
\* Variant: only the first letter is lowered.
toLowerCase_FirstLetter(s) == [i \in 1..Len(s) |-> IF i = 1 THEN ToLowerChar(s[i]) ELSE s[i]]

toLowerCase(s) == [i \in 1..Len(s) |-> ToLowerChar(s[i])]
includes(s, sub) ==
    \E i \in 0..(Len(s) - Len(sub)) : SubSeq(s, i + 1, i + Len(sub)) = sub

steamStr == <<"s","t","e","a","m">>
Steam_exe == <<"S","t","e","a","m",".","e","x","e">>
STEAM_EXE == <<"S","T","E","A","M",".","E","X","E">>
steamwebhelper_exe == <<"s","t","e","a","m","w","e","b","h","e","l","p","e","r",".","e","x","e">>
gameoverlayui_exe == <<"g","a","m","e","o","v","e","r","l","a","y","u","i",".","e","x","e">>
steam_osx == <<"s","t","e","a","m","_","o","s","x">>
Steam_app == <<"S","t","e","a","m",".","a","p","p">>
steamwebhelper == <<"s","t","e","a","m","w","e","b","h","e","l","p","e","r">>
steam == <<"s","t","e","a","m">>
reaper == <<"r","e","a","p","e","r">>
notepad_exe == <<"n","o","t","e","p","a","d",".","e","x","e">>

\* The table of configureSteamPolicy.
KnownPlatforms == {"win32", "darwin", "linux"}
processNames ==
    [p \in KnownPlatforms |->
        CASE p = "win32" -> <<Steam_exe, steamwebhelper_exe, gameoverlayui_exe>>
          [] p = "darwin" -> <<steam_osx, Steam_app, steamwebhelper>>
          [] OTHER -> <<steam, steamwebhelper, reaper>>]

\* const platform = agent.platform || 'win32'
PolicyPlatform(agent) ==
    IF agent.platform = {} THEN "win32" ELSE CHOOSE p \in agent.platform : TRUE
\* processNames[platform][0] raises a TypeError when the table has no such row.
ConfigureThrows(agent) == PolicyPlatform(agent) \notin KnownPlatforms

\* ----------------------------------------------------------- files on disk
\* The files the parser is given: a localconfig.vdf and an app manifest in the
\* steamapps directory.
LocalConfig == "localconfig.vdf"
AppManifest == "appmanifest_1.acf"
Paths == {LocalConfig, AppManifest}

\* Contents a file may have. vdf.parse (simple-vdf) turns a content into a tree
\* or throws; the tree is given by the keys the accessors look at, each
\* present ({v}) or absent ({}).
Documents == {"malformed", "empty", "user", "userBare", "userNoName", "app"}
NoTree == [UserLocalConfigStore |-> {}, AppState |-> {}]
VdfThrows(content) == content = "malformed"
VdfTree(content) ==
    CASE content = "user" ->
           [NoTree EXCEPT !.UserLocalConfigStore =
               {[parental |-> {"parentalSettings"},
                 friends |-> {[PersonaName |-> {"Gamer"}]}]}]
      [] content = "userBare" ->
           [NoTree EXCEPT !.UserLocalConfigStore = {[parental |-> {}, friends |-> {}]}]
      [] content = "userNoName" ->
           [NoTree EXCEPT !.UserLocalConfigStore =
               {[parental |-> {}, friends |-> {[PersonaName |-> {}]}]}]
      [] content = "app" ->
           [NoTree EXCEPT !.AppState = {[appid |-> "440", name |-> "Game"]}]
      [] OTHER -> NoTree

\* What a call to a service method came to: it returned or threw; what it
\* returned is in the field of its kind (obj: a parsed object, val: a value or
\* "null", games / names: a list, paths: the three path segments). For
\* parseFile, `via` tells the way it took: "hit" (fresh cache entry), "stale"
\* (entry with another modification time), "miss" (no entry, or cache unused);
\* for the SteamMonitor methods, `platform` is the os.platform() they saw.
NoPaths == [config |-> "none", userdata |-> "none", steamapps |-> "none"]
NoOut == [op |-> "none", threw |-> FALSE, obj |-> {}, val |-> {}, games |-> <<>>,
          names |-> <<>>, paths |-> NoPaths, via |-> "none", platform |-> "none"]
Outcome(op) == [NoOut EXCEPT !.op = op]

\* ------------------------------------------------------------------- state
VARIABLES
    phase,          \* "new" | "loading" | "ready" | "noService": progress of onLoad;
                    \* "unloading" | "unloaded" | "unloadFailed": progress of onUnload
                    \* (its callback was called with null / with an error)
    status,         \* last context.statusUpdate status ("none" before the first)
    agents,         \* state.agents: agent id -> record
    agentOrder,     \* the keys of state.agents in insertion order (Object.values order)
    policies,       \* state.policies: agent id -> record
    violations,     \* state.violations, newest first
    settings,       \* state.settings
    tasks,          \* async handlers suspended on an agent-service call
    policyCalls,    \* create/update/delete-policy calls issued so far, in issue order
    svc,            \* the agent service's policy per agent (effect of the settled calls)
    rendererMsgs,   \* context.sendToRenderer notifications, in order
    activity,       \* number of context.logActivity entries
    persisted,      \* the state handed to the last context.configurationUpdate
    nPersist,       \* number of context.configurationUpdate calls
    now,            \* Date.now()
    evSeq,          \* number of async handlers started (arrival order)
    used,           \* events dispatched so far, per kind (bounds the model)
    reply,          \* how the last request handler to finish completed
    hist            \* history, read by the properties only:
                    \*   everLinked: agents for which linkAgent has returned success
                    \*   unlinked:   agents for which unlinkAgent has returned, not linked since
                    \*   listed:     {the list listAgents returned to onLoad}, {} before
                    \*   appended:   every violation record appended so far, oldest first
                    \*   hadPolicy:  the agents with a policy record when onUnload was called
                    \*   reUnlinked: agents for which unlinkAgent has returned again after
                    \*               it had returned, not linked in between or since

\* The services beside the plugin (SteamVDFParser, SteamMonitor) and the disk
\* they read.
VARIABLES
    fsys,           \* the disk: each file's existence, content and modification time,
                    \* and whether the steamapps directory can be listed
    cache,          \* SteamVDFParser.cache: path -> {} or {[data, mtime]}
    nextObj,        \* identity of the next object vdf.parse allocates
    reads,          \* number of fs.readFileSync calls so far
    out,            \* what the last call to a service method came to
    libUsed,        \* calls and disk changes so far (bounds the model)
    watched         \* the paths with a watcher of watchFile on them

pluginVars == <<phase, status, agents, agentOrder, policies, violations, settings, tasks,
                policyCalls, svc, rendererMsgs, activity, persisted, nPersist, now, evSeq,
                used, reply, hist>>

libVars == <<fsys, cache, nextObj, reads, out, libUsed, watched>>

vars == <<phase, status, agents, agentOrder, policies, violations, settings, tasks,
          policyCalls, svc, rendererMsgs, activity, persisted, nPersist, now, evSeq, used,
          reply, hist, fsys, cache, nextObj, reads, out, libUsed, watched>>

EventKinds == {"stateChange", "agentDiscovered", "linkOp", "violation",
               "processDetected", "updateSettings", "request", "setEnabled"}

\* state = loadState || { agents: {}, policies: {}, violations: [], settings: {...} }
DefaultSettings ==
    [checkInterval |-> DefaultCheckInterval, killOnViolation |-> TRUE, notifyParent |-> TRUE]

NoSvcPolicy == [hasPolicy |-> FALSE, allowed |-> FALSE, checkInterval |-> 0, enabled |-> TRUE]

\* The completion of a request handler: it returned an array (its slots:
\* [null, result] on success, [error] from a catch), or its promise rejected.
NoReply == [outcome |-> "none", slots |-> <<>>]
Returned(failed) ==
    [outcome |-> "returned", slots |-> IF failed THEN <<"error">> ELSE <<"null", "result">>]
Rejection == [outcome |-> "rejected", slots |-> <<>>]

Snapshot(ag, po, vi, se) == [agents |-> ag, policies |-> po, violations |-> vi, settings |-> se]

Init ==
    /\ phase = "new"
    /\ status = "none"
    /\ agents = <<>>
    /\ agentOrder = <<>>
    /\ policies = <<>>
    /\ violations = <<>>
    /\ settings = DefaultSettings
    /\ tasks = {}
    /\ policyCalls = <<>>
    /\ svc = [a \in Agents |-> NoSvcPolicy]
    /\ rendererMsgs = <<>>
    /\ activity = 0
    /\ persisted = {}
    /\ nPersist = 0
    /\ now = 1
    /\ evSeq = 0
    /\ used = [k \in EventKinds |-> 0]
    /\ reply = NoReply
    /\ fsys = [file |-> [p \in Paths |-> [exists |-> FALSE, content |-> "empty", mtime |-> 1]],
               steamapps |-> TRUE]
    /\ cache = [p \in Paths |-> {}]
    /\ nextObj = 1
    /\ reads = 0
    /\ out = NoOut
    /\ libUsed = 0
    /\ watched = {}
    /\ hist = [everLinked |-> {}, unlinked |-> {}, listed |-> {}, appended |-> <<>>,
               hadPolicy |-> {}, reUnlinked |-> {}, callbacks |-> <<>>]

\* ------------------------------------------------------- agent-service calls
\* A call record: the operation, the agent, the (partial) policy sent, and the
\* handler that issued it (by, ev: its arrival number, child: the subject of a
\* stateChange).
Call(op, a, by, ev) ==
    [op |-> op, agentId |-> a, processName |-> {}, alternatives |-> {}, allowed |-> {},
     checkInterval |-> {}, enabled |-> {}, onDetected |-> {}, onViolation |-> {},
     platform |-> {}, by |-> by, ev |-> ev, child |-> Null]

\* Variant: the violation action does not follow the killOnViolation setting.
CreatePolicyCall_AlwaysKills(agent, by, ev) ==
    LET platform == PolicyPlatform(agent)
    IN [Call("createPolicy", agent.id, by, ev) EXCEPT
          !.processName = {processNames[platform][1]},
          !.alternatives = {processNames[platform]},
          !.allowed = {FALSE},
          !.checkInterval = {settings.checkInterval},
          !.onDetected = {"check-quota"},
          !.onViolation = {"kill-process"},
          !.platform = {platform}]

\* agentService.createPolicy(agent.id, {...}) of configureSteamPolicy.
CreatePolicyCall(agent, by, ev) ==
    LET platform == PolicyPlatform(agent)
    IN [Call("createPolicy", agent.id, by, ev) EXCEPT
          !.processName = {processNames[platform][1]},
          !.alternatives = {processNames[platform]},
          !.allowed = {FALSE},
          !.checkInterval = {settings.checkInterval},
          !.onDetected = {"check-quota"},
          !.onViolation = {IF settings.killOnViolation THEN "kill-process" ELSE "notify-only"},
          !.platform = {platform}]

\* state.policies[agent.id] = {...} of configureSteamPolicy.
PolicyRecord(agent) ==
    LET platform == PolicyPlatform(agent)
    IN [processName |-> processNames[platform][1],
        alternativeProcesses |-> processNames[platform],
        allowed |-> FALSE,
        checkInterval |-> settings.checkInterval]

\* The agent service applies a settled call to the policy it holds.
SvcApply(c) ==
    LET cur == svc[c.agentId]
        val(opt, old) == IF opt = {} THEN old ELSE CHOOSE v \in opt : TRUE
    IN CASE c.op = "createPolicy" ->
              [svc EXCEPT ![c.agentId] =
                  [hasPolicy |-> TRUE, allowed |-> val(c.allowed, FALSE),
                   checkInterval |-> val(c.checkInterval, 0), enabled |-> TRUE]]
         [] c.op = "updatePolicy" ->
              IF cur.hasPolicy
              THEN [svc EXCEPT ![c.agentId] =
                      [hasPolicy |-> TRUE, allowed |-> val(c.allowed, cur.allowed),
                       checkInterval |-> val(c.checkInterval, cur.checkInterval),
                       enabled |-> val(c.enabled, cur.enabled)]]
              ELSE svc
         [] OTHER -> [svc EXCEPT ![c.agentId] = NoSvcPolicy]

\* A suspended async handler: the call it awaits (pc, and for a policy call the
\* record sent), the agent of the current loop iteration, the agents still to
\* visit, and the handler's arguments.
NoState == [paused |-> {}, quota |-> {}, remainingQuota |-> {}]
Task(kind, ev, pc, cur, todo) ==
    [kind |-> kind, ev |-> ev, pc |-> pc, cur |-> cur, todo |-> todo,
     call |-> {}, childId |-> Null, st |-> NoState, interval |-> 0]

TheCall(t) == CHOOSE c \in t.call : TRUE

\* Variant: the assignment replaces the whole map by the one entry.
Put_Replacing(f, k, v) == [x \in {k} |-> v]

\* state.agents[k] = v / state.policies[k] = v: the other entries stay.
\* Insertion of a key into state.agents keeps the place of an existing key.
Put(f, k, v) == [x \in (DOMAIN f) \cup {k} |-> IF x = k THEN v ELSE f[x]]
PutOrder(order, k) ==
    IF \E i \in 1..Len(order) : order[i] = k THEN order ELSE Append(order, k)

\* ------------------------------------------------------------------ onLoad
\* The for-loop of onLoad from the agent `todo` starts with: it either suspends
\* on createPolicy for the first agent, or ends (list exhausted, or
\* configureSteamPolicy threw into onLoad's catch) and onLoad runs to its end.
LoadLoop(t, todo) ==
    IF todo /= <<>> /\ ~ConfigureThrows(ServiceAgent(Head(todo)))
    THEN LET c == CreatePolicyCall(ServiceAgent(Head(todo)), "onLoad", t.ev)
         IN /\ policyCalls' = Append(policyCalls, c)
            /\ tasks' = (tasks \ {t}) \cup
                 {[t EXCEPT !.pc = "createPolicy", !.cur = Head(todo),
                            !.todo = Tail(todo), !.call = {c}]}
            /\ UNCHANGED <<phase, status>>
    ELSE /\ tasks' = tasks \ {t}
         /\ phase' = "ready"
         /\ status' = "ready"
         /\ UNCHANGED policyCalls

\* onLoad up to its first await (or its early return without an agent service).
OnLoad(hasService) ==
    /\ phase = "new"
    /\ IF hasService
       THEN /\ phase' = "loading"
            /\ tasks' = tasks \cup {Task("onLoad", evSeq + 1, "listAgents", Null, <<>>)}
            /\ evSeq' = evSeq + 1
            /\ UNCHANGED status
       ELSE /\ phase' = "noService"
            /\ status' = "error"
            /\ UNCHANGED <<tasks, evSeq>>
    /\ UNCHANGED <<agents, agentOrder, policies, violations, settings, policyCalls, svc,
                   rendererMsgs, activity, persisted, nPersist, now, used, hist>>
    /\ UNCHANGED reply
    /\ UNCHANGED libVars

\* listAgents() of onLoad settles: with a list, or with an error (caught).
OnLoadListed(t, ok, list) ==
    /\ t \in tasks /\ t.kind = "onLoad" /\ t.pc = "listAgents"
    /\ LoadLoop(t, IF ok THEN list ELSE <<>>)
    /\ hist' = IF ok THEN [hist EXCEPT !.listed = {list}] ELSE hist
    /\ UNCHANGED <<agents, agentOrder, policies, violations, settings, svc,
                   rendererMsgs, activity, persisted, nPersist, now, evSeq, used>>
    /\ UNCHANGED reply
    /\ UNCHANGED libVars

\* createPolicy() of configureSteamPolicy settles inside onLoad.
OnLoadConfigured(t, ok) ==
    /\ t \in tasks /\ t.kind = "onLoad" /\ t.pc = "createPolicy"
    /\ policies' = IF ok THEN Put(policies, t.cur, PolicyRecord(ServiceAgent(t.cur)))
                   ELSE policies
    /\ svc' = IF ok THEN SvcApply(TheCall(t)) ELSE svc
    /\ LoadLoop(t, t.todo)
    /\ UNCHANGED <<agents, agentOrder, violations, settings,
                   rendererMsgs, activity, persisted, nPersist, now, evSeq, used, hist>>
    /\ UNCHANGED reply
    /\ UNCHANGED libVars

\* ------------------------------------------------- configurationUpdate(state)
Persist(ag, po, vi, se) ==
    /\ persisted' = {Snapshot(ag, po, vi, se)}
    /\ nPersist' = nPersist + 1

Use(kind) == used' = [used EXCEPT ![kind] = @ + 1]

\* return [null, {...}] / return [error] of a request handler.
Replied(failed) == reply' = Returned(failed)

\* ------------------------------------------------------ agentDiscovered event
\* The listener up to its await of createPolicy (`max` bounds the events of a
\* run). When configureSteamPolicy
\* throws (no table row for the platform) the listener's promise rejects and
\* nothing after the call runs.
AgentDiscovered(a, max) ==
    /\ phase = "ready"
    /\ used["agentDiscovered"] < max
    /\ Use("agentDiscovered")
    /\ IF ConfigureThrows(ServiceAgent(a))
       THEN UNCHANGED <<tasks, policyCalls, evSeq>>
       ELSE LET c == CreatePolicyCall(ServiceAgent(a), "agentDiscovered", evSeq + 1)
            IN /\ policyCalls' = Append(policyCalls, c)
               /\ tasks' = tasks \cup
                    {[Task("agentDiscovered", evSeq + 1, "createPolicy", a, <<>>)
                        EXCEPT !.call = {c}]}
               /\ evSeq' = evSeq + 1
    /\ UNCHANGED <<phase, status, agents, agentOrder, policies, violations, settings, svc,
                   rendererMsgs, activity, persisted, nPersist, now, hist>>
    /\ UNCHANGED reply
    /\ UNCHANGED libVars

\* state.agents[agent.id] = {...} of the agentDiscovered listener.
DiscoveredRecord(agent) ==
    [id |-> agent.id, hostname |-> {agent.hostname}, platform |-> agent.platform,
     enabled |-> TRUE, childId |-> Null, allowed |-> {}]

\* createPolicy settles inside the agentDiscovered listener: the policy record
\* on success, then the agent record and the save in both cases.
DiscoveredConfigured(t, ok) ==
    /\ t \in tasks /\ t.kind = "agentDiscovered" /\ t.pc = "createPolicy"
    /\ policies' = IF ok THEN Put(policies, t.cur, PolicyRecord(ServiceAgent(t.cur)))
                   ELSE policies
    /\ svc' = IF ok THEN SvcApply(TheCall(t)) ELSE svc
    /\ agents' = Put(agents, t.cur, DiscoveredRecord(ServiceAgent(t.cur)))
    /\ agentOrder' = PutOrder(agentOrder, t.cur)
    /\ Persist(agents', policies', violations, settings)
    /\ tasks' = tasks \ {t}
    /\ UNCHANGED <<phase, status, violations, settings, policyCalls,
                   rendererMsgs, activity, now, evSeq, used, hist>>
    /\ UNCHANGED reply
    /\ UNCHANGED libVars

\* --------------------------------------------------------- link / unlink
\* Variant: linking also marks the agent as allowed.
LinkedRecord_MarksAllowed(rec, child) ==
    [rec EXCEPT !.childId = child, !.enabled = TRUE, !.allowed = {TRUE}]

\* state.agents[agentId].childId = childId; state.agents[agentId].enabled = true
LinkedRecord(rec, child) == [rec EXCEPT !.childId = child, !.enabled = TRUE]

\* steam:linkAgent (no await inside: one step).
LinkAgent(a, child, max) ==
    /\ phase = "ready"
    /\ used["linkOp"] < max
    /\ Use("linkOp")
    /\ LET rec == IF a \in DOMAIN agents THEN agents[a]
                  ELSE [id |-> a, hostname |-> {}, platform |-> {},
                        enabled |-> TRUE, childId |-> Null, allowed |-> {}]
       IN agents' = Put(agents, a, LinkedRecord(rec, child))
    /\ agentOrder' = PutOrder(agentOrder, a)
    /\ hist' = [hist EXCEPT !.everLinked = @ \cup {a}, !.unlinked = @ \ {a},
                            !.reUnlinked = @ \ {a}]
    /\ Persist(agents', policies, violations, settings)
    /\ UNCHANGED <<phase, status, policies, violations, settings, tasks, policyCalls, svc,
                   rendererMsgs, activity, now, evSeq>>
    /\ Replied(FALSE)
    /\ UNCHANGED libVars

\* Variant: unlinking flips the enabled flag.
Unlinked_FlipsEnabled(ag, a) ==
    IF a \in DOMAIN ag
    THEN [ag EXCEPT ![a].childId = Null, ![a].enabled = ~@]
    ELSE ag

\* if (state.agents[agentId]) { ...childId = null; ...enabled = false }
Unlinked(ag, a) ==
    IF a \in DOMAIN ag
    THEN [ag EXCEPT ![a].childId = Null, ![a].enabled = FALSE]
    ELSE ag

\* steam:unlinkAgent (one step).
UnlinkAgent(a, max) ==
    /\ phase = "ready"
    /\ used["linkOp"] < max
    /\ Use("linkOp")
    /\ agents' = Unlinked(agents, a)
    /\ hist' = [hist EXCEPT !.unlinked = @ \cup {a},
                            !.reUnlinked = IF a \in hist.unlinked THEN @ \cup {a} ELSE @]
    /\ Persist(agents', policies, violations, settings)
    /\ UNCHANGED <<phase, status, agentOrder, policies, violations, settings, tasks,
                   policyCalls, svc, rendererMsgs, activity, now, evSeq>>
    /\ Replied(FALSE)
    /\ UNCHANGED libVars

\* ------------------------------------------------------------- stateChange
\* Variant: the pause flag is not consulted.
steamAllowed_IgnoringPause(st) == \E q \in st.quota : q > 0

\* const steamAllowed = !allow2State.paused && allow2State.quota > 0
steamAllowed(st) == st.paused /= {TRUE} /\ \E q \in st.quota : q > 0

\* Variant: the filter on the subject is missing.
childAgents_Unfiltered(child) == agentOrder

\* Object.values(state.agents).filter(a => a.childId === childId), as ids.
childAgents(child) == SelectSeq(agentOrder, LAMBDA a : agents[a].childId = child)

\* The for-loop of the stateChange listener from `todo` on: suspend on
\* getAgent for the next agent, or end.
StateLoop(t, todo) ==
    IF todo /= <<>>
    THEN tasks' = (tasks \ {t}) \cup
            {[t EXCEPT !.pc = "getAgent", !.cur = Head(todo), !.todo = Tail(todo),
                       !.call = {}]}
    ELSE tasks' = tasks \ {t}

\* Variant: a failed call ends the listener's loop.
RestAfterCatch_Breaks(t) == <<>>

\* catch (error) { console.error(...) } around getAgent (in the listener) and
\* around updatePolicy (in updateSteamPolicy): the loop goes on with the agents
\* still to visit.
RestAfterCatch(t) == t.todo

\* The stateChange listener up to its first await. `max` bounds the events of a run.
StateChange(child, st, max) ==
    /\ phase = "ready"
    /\ used["stateChange"] < max
    /\ Use("stateChange")
    /\ evSeq' = evSeq + 1
    /\ StateLoop([Task("stateChange", evSeq + 1, "getAgent", Null, <<>>)
                     EXCEPT !.childId = child, !.st = st],
                 childAgents(child))
    /\ UNCHANGED <<phase, status, agents, agentOrder, policies, violations, settings,
                   policyCalls, svc, rendererMsgs, activity, persisted, nPersist, now, hist>>
    /\ UNCHANGED reply
    /\ UNCHANGED libVars

\* agentService.updatePolicy(agent.id, {processName, allowed}) of updateSteamPolicy.
UpdateAllowedCall(a, st, ev, child) ==
    [Call("updatePolicy", a, "stateChange", ev) EXCEPT
        !.child = child,
        !.processName = {IF a \in DOMAIN policies THEN policies[a].processName
                         ELSE Steam_exe},
        !.allowed = {steamAllowed(st)}]

\* getAgent settles inside the stateChange listener: with the agent
\* (updateSteamPolicy runs up to its await of updatePolicy), with null, or
\* with an error (caught); in the last two cases the loop goes on.
GetAgentSettled(t, res) ==
    /\ t \in tasks /\ t.kind = "stateChange" /\ t.pc = "getAgent"
    /\ IF res = "agent"
       THEN LET c == UpdateAllowedCall(t.cur, t.st, t.ev, t.childId)
            IN /\ policyCalls' = Append(policyCalls, c)
               /\ tasks' = (tasks \ {t}) \cup
                    {[t EXCEPT !.pc = "updatePolicy", !.call = {c}]}
       ELSE /\ StateLoop(t, IF res = "error" THEN RestAfterCatch(t) ELSE t.todo)
            /\ UNCHANGED policyCalls
    /\ UNCHANGED <<phase, status, agents, agentOrder, policies, violations, settings, svc,
                   rendererMsgs, activity, persisted, nPersist, now, evSeq, used, hist>>
    /\ UNCHANGED reply
    /\ UNCHANGED libVars

\* updatePolicy settles inside updateSteamPolicy: on success the agent record
\* (if there is one) takes the allowed value and the state is saved; an error
\* is caught. The listener's loop goes on.
UpdatePolicySettled(t, ok) ==
    /\ t \in tasks /\ t.kind = "stateChange" /\ t.pc = "updatePolicy"
    /\ agents' = IF ok /\ t.cur \in DOMAIN agents
                 THEN [agents EXCEPT ![t.cur].allowed = TheCall(t).allowed]
                 ELSE agents
    /\ svc' = IF ok THEN SvcApply(TheCall(t)) ELSE svc
    /\ IF ok THEN Persist(agents', policies, violations, settings)
       ELSE UNCHANGED <<persisted, nPersist>>
    /\ StateLoop(t, IF ok THEN t.todo ELSE RestAfterCatch(t))
    /\ UNCHANGED <<phase, status, agentOrder, policies, violations, settings, policyCalls,
                   rendererMsgs, activity, now, evSeq, used, hist>>
    /\ UNCHANGED reply
    /\ UNCHANGED libVars

\* ---------------------------------------------------------------- violation
\* Variant: the cut keeps the oldest records instead of the newest.
Capped_DropsNewest(log) ==
    IF Len(log) > ViolationCap THEN SubSeq(log, 2, ViolationCap + 1) ELSE log

\* handleViolation(data): the record goes to the front of the log, the log is
\* cut to the cap, the renderer is told if notifyParent, the activity feed gets
\* its entry and the state is saved.
ViolationRecord(data) ==
    [agentId |-> data.agentId, processName |-> data.processName,
     timestamp |-> IF \E ts \in data.timestamp : ts /= 0
                   THEN CHOOSE ts \in data.timestamp : TRUE ELSE now,
     hostname |-> data.hostname]

Capped(log) == IF Len(log) > ViolationCap THEN SubSeq(log, 1, ViolationCap) ELSE log

\* Variant: the renderer is told whatever the settings say.
Notifies_Always(s) == TRUE

\* if (state.settings.notifyParent && context.sendToRenderer)
Notifies(s) == s.notifyParent

handleViolation(data) ==
    /\ violations' = Capped(<<ViolationRecord(data)>> \o violations)
    /\ rendererMsgs' = IF Notifies(settings)
                       THEN Append(rendererMsgs,
                                [channel |-> "steamViolation", payload |-> ViolationRecord(data)])
                       ELSE rendererMsgs
    /\ activity' = activity + 1
    /\ Persist(agents, policies, violations', settings)
    /\ hist' = [hist EXCEPT !.appended = Append(@, ViolationRecord(data))]

\* Variant: the name is compared without being lowered first.
IsSteamProcess_CaseSensitive(data) ==
    \E n \in data.processName : includes(n, steamStr)

\* const processName = data.processName?.toLowerCase() || ''
\* if (processName.includes('steam'))
IsSteamProcess(data) ==
    \E n \in data.processName : includes(toLowerCase(n), steamStr)

\* The violation listener (synchronous). `max` bounds the events of a run.
Violation(data, max) ==
    /\ phase = "ready"
    /\ used["violation"] < max
    /\ Use("violation")
    /\ now' = now + 1
    /\ IF IsSteamProcess(data)
       THEN handleViolation(data)
       ELSE UNCHANGED <<violations, rendererMsgs, activity, persisted, nPersist, hist>>
    /\ UNCHANGED <<phase, status, agents, agentOrder, policies, settings, tasks, policyCalls,
                   svc, evSeq>>
    /\ UNCHANGED reply
    /\ UNCHANGED libVars

\* The agent service emits a violation event at any time after onLoad has
\* reached its awaits. onLoad registers the listeners (setupEventListeners) only
\* after its loop over the agents: until then the event has no listener and
\* nothing happens.
EmitViolation(data, max) ==
    /\ phase \in {"loading", "ready"}
    /\ IF phase = "ready"
       THEN Violation(data, max)
       ELSE /\ used["violation"] < max
            /\ Use("violation")
            /\ UNCHANGED <<phase, status, agents, agentOrder, policies, violations, settings,
                           tasks, policyCalls, svc, rendererMsgs, activity, persisted,
                           nPersist, now, evSeq, reply, hist>>
    /\ UNCHANGED libVars

\* Variant: the notification also carries the hostname.
DetectedNotice_WithHostname(data) ==
    [agentId |-> data.agentId, processName |-> data.processName,
     timestamp |-> ViolationRecord(data).timestamp, hostname |-> data.hostname]

\* { agentId: data.agentId, processName: data.processName,
\*   timestamp: data.timestamp || Date.now() }
DetectedNotice(data) ==
    [agentId |-> data.agentId, processName |-> data.processName,
     timestamp |-> ViolationRecord(data).timestamp]

\* The processDetected listener (synchronous). `max` bounds the events of a run.
ProcessDetected(data, max) ==
    /\ phase = "ready"
    /\ used["processDetected"] < max
    /\ Use("processDetected")
    /\ now' = now + 1
    /\ rendererMsgs' =
         IF IsSteamProcess(data)
         THEN Append(rendererMsgs,
                [channel |-> "steamDetected", payload |-> DetectedNotice(data)])
         ELSE rendererMsgs
    /\ UNCHANGED <<phase, status, agents, agentOrder, policies, violations, settings, tasks,
                   policyCalls, svc, activity, persisted, nPersist, evSeq, hist>>
    /\ UNCHANGED reply
    /\ UNCHANGED libVars

\* steam:getViolations: state.violations.slice(0, limit), limit = 50 by default.
getViolations(limit) ==
    LET n == IF limit = {} THEN DefaultViolationLimit ELSE CHOOSE l \in limit : TRUE
    IN SubSeq(violations, 1, IF n < Len(violations) THEN n ELSE Len(violations))

\* steam:getSettings: return [null, { settings: state.settings }]
getSettings == settings

\* steam:clearViolations (one step).
ClearViolations ==
    /\ phase = "ready"
    /\ violations /= <<>>
    /\ violations' = <<>>
    /\ Persist(agents, policies, violations', settings)
    /\ UNCHANGED <<phase, status, agents, agentOrder, policies, settings, tasks, policyCalls,
                   svc, rendererMsgs, activity, now, evSeq, used, hist>>
    /\ Replied(FALSE)
    /\ UNCHANGED libVars

\* ------------------------------------------------------------ updateSettings
\* Variant: the request's settings replace the stored ones, the fields it lacks
\* falling back to their defaults.
MergeSettings_OntoDefaults(old, patch) ==
    [checkInterval |-> IF patch.checkInterval = {} THEN DefaultSettings.checkInterval
                       ELSE CHOOSE v \in patch.checkInterval : TRUE,
     killOnViolation |-> IF patch.killOnViolation = {} THEN DefaultSettings.killOnViolation
                         ELSE CHOOSE v \in patch.killOnViolation : TRUE,
     notifyParent |-> IF patch.notifyParent = {} THEN DefaultSettings.notifyParent
                      ELSE CHOOSE v \in patch.notifyParent : TRUE]

\* state.settings = { ...state.settings, ...settings }
MergeSettings(old, patch) ==
    [checkInterval |-> IF patch.checkInterval = {} THEN old.checkInterval
                       ELSE CHOOSE v \in patch.checkInterval : TRUE,
     killOnViolation |-> IF patch.killOnViolation = {} THEN old.killOnViolation
                         ELSE CHOOSE v \in patch.killOnViolation : TRUE,
     notifyParent |-> IF patch.notifyParent = {} THEN old.notifyParent
                      ELSE CHOOSE v \in patch.notifyParent : TRUE]

\* steam:updateSettings up to its first await: without a (truthy) checkInterval
\* in the request it returns at once. `max` bounds the requests of a run.
UpdateSettings(patch, max) ==
    /\ phase = "ready"
    /\ used["updateSettings"] < max
    /\ Use("updateSettings")
    /\ settings' = MergeSettings(settings, patch)
    /\ Persist(agents, policies, violations, settings')
    /\ IF \E v \in patch.checkInterval : v /= 0
       THEN /\ tasks' = tasks \cup
                 {[Task("updateSettings", evSeq + 1, "listAgents", Null, <<>>)
                     EXCEPT !.interval = CHOOSE v \in patch.checkInterval : TRUE]}
            /\ evSeq' = evSeq + 1
            /\ UNCHANGED reply
       ELSE /\ Replied(FALSE)
            /\ UNCHANGED <<tasks, evSeq>>
    /\ UNCHANGED <<phase, status, agents, agentOrder, policies, violations, policyCalls, svc,
                   rendererMsgs, activity, now, hist>>
    /\ UNCHANGED libVars

\* The agents of `todo` from the first one that has a policy record.
RECURSIVE FromRegistered(_)
FromRegistered(todo) ==
    IF todo = <<>> \/ Head(todo) \in DOMAIN policies THEN todo
    ELSE FromRegistered(Tail(todo))

\* The for-loop of steam:updateSettings from `todo` on: suspend on updatePolicy
\* for the next agent with a policy record, or return [null, {success: true}].
SettingsLoop(t, todo) ==
    LET rest == FromRegistered(todo)
    IN IF rest /= <<>>
       THEN LET c == [Call("updatePolicy", Head(rest), "updateSettings", t.ev)
                        EXCEPT !.checkInterval = {t.interval}]
            IN /\ policyCalls' = Append(policyCalls, c)
               /\ tasks' = (tasks \ {t}) \cup
                    {[t EXCEPT !.pc = "updatePolicy", !.cur = Head(rest),
                               !.todo = Tail(rest), !.call = {c}]}
               /\ UNCHANGED reply
       ELSE /\ tasks' = tasks \ {t}
            /\ Replied(FALSE)
            /\ UNCHANGED policyCalls

\* listAgents settles inside steam:updateSettings; an error ends the handler.
SettingsListed(t, ok, list) ==
    /\ t \in tasks /\ t.kind = "updateSettings" /\ t.pc = "listAgents"
    /\ IF ok THEN SettingsLoop(t, list)
       ELSE /\ tasks' = tasks \ {t}
            /\ Replied(TRUE)
            /\ UNCHANGED policyCalls
    /\ UNCHANGED <<phase, status, agents, agentOrder, policies, violations, settings, svc,
                   rendererMsgs, activity, persisted, nPersist, now, evSeq, used, hist>>
    /\ UNCHANGED libVars

\* updatePolicy settles inside steam:updateSettings: an error leaves the loop
\* (the handler returns [error]).
SettingsUpdated(t, ok) ==
    /\ t \in tasks /\ t.kind = "updateSettings" /\ t.pc = "updatePolicy"
    /\ svc' = IF ok THEN SvcApply(TheCall(t)) ELSE svc
    /\ IF ok THEN SettingsLoop(t, t.todo)
       ELSE /\ tasks' = tasks \ {t}
            /\ Replied(TRUE)
            /\ UNCHANGED policyCalls
    /\ UNCHANGED <<phase, status, agents, agentOrder, policies, violations, settings,
                   rendererMsgs, activity, persisted, nPersist, now, evSeq, used, hist>>
    /\ UNCHANGED libVars

\* -------------------------------------------------------------- onSetEnabled
\* The end of onSetEnabled(false): statusUpdate 'inactive', then the save.
Disabled(t) ==
    /\ tasks' = tasks \ {t}
    /\ status' = "inactive"
    /\ Persist(agents, policies, violations, settings)
    /\ UNCHANGED policyCalls

\* The for-loop of onSetEnabled(false) from `todo` on: suspend on
\* updatePolicy(agent.id, {enabled: false}) for the next agent with a policy
\* record, or go to the end of the function.
DisableLoop(t, todo) ==
    LET rest == FromRegistered(todo)
    IN IF rest /= <<>>
       THEN LET c == [Call("updatePolicy", Head(rest), "onSetEnabled", t.ev)
                        EXCEPT !.enabled = {FALSE}]
            IN /\ policyCalls' = Append(policyCalls, c)
               /\ tasks' = (tasks \ {t}) \cup
                    {[t EXCEPT !.pc = "updatePolicy", !.cur = Head(rest),
                               !.todo = Tail(rest), !.call = {c}]}
               /\ UNCHANGED <<status, persisted, nPersist>>
       ELSE Disabled(t)

\* onSetEnabled(enabled) up to its first await. Enabling is one step:
\* statusUpdate 'active' and the save. Disabling awaits listAgents; without an
\* agent service the call raises a TypeError into the catch and the function
\* runs to its end. `max` bounds the calls of a run.
OnSetEnabled(enabled, max) ==
    /\ phase \in {"ready", "noService"}
    /\ used["setEnabled"] < max
    /\ Use("setEnabled")
    /\ IF enabled
       THEN /\ status' = "active"
            /\ Persist(agents, policies, violations, settings)
            /\ UNCHANGED <<tasks, evSeq>>
       ELSE IF phase = "ready"
       THEN /\ tasks' = tasks \cup {Task("onSetEnabled", evSeq + 1, "listAgents", Null, <<>>)}
            /\ evSeq' = evSeq + 1
            /\ UNCHANGED <<status, persisted, nPersist>>
       ELSE /\ status' = "inactive"
            /\ Persist(agents, policies, violations, settings)
            /\ UNCHANGED <<tasks, evSeq>>
    /\ UNCHANGED <<phase, agents, agentOrder, policies, violations, settings, policyCalls,
                   svc, rendererMsgs, activity, now, reply, hist>>
    /\ UNCHANGED libVars

\* listAgents settles inside onSetEnabled(false); an error is caught.
EnableListed(t, ok, list) ==
    /\ t \in tasks /\ t.kind = "onSetEnabled" /\ t.pc = "listAgents"
    /\ IF ok THEN DisableLoop(t, list) ELSE Disabled(t)
    /\ UNCHANGED <<phase, agents, agentOrder, policies, violations, settings, svc,
                   rendererMsgs, activity, now, evSeq, used, reply, hist>>
    /\ UNCHANGED libVars

\* updatePolicy settles inside onSetEnabled(false): an error leaves the loop
\* (the try is around the whole loop).
DisableUpdated(t, ok) ==
    /\ t \in tasks /\ t.kind = "onSetEnabled" /\ t.pc = "updatePolicy"
    /\ svc' = IF ok THEN SvcApply(TheCall(t)) ELSE svc
    /\ IF ok THEN DisableLoop(t, t.todo) ELSE Disabled(t)
    /\ UNCHANGED <<phase, agents, agentOrder, policies, violations, settings,
                   rendererMsgs, activity, now, evSeq, used, reply, hist>>
    /\ UNCHANGED libVars

\* ---------------------------------------------------------------- onUnload
\* onUnload(callback) up to listAgents().then(...); without an agent service
\* (onLoad returned early, or never ran) the callback is called at once. The
\* model follows no event or request once onUnload has been called.
OnUnload ==
    /\ phase \in {"new", "noService", "ready"}
    /\ tasks = {}
    /\ IF phase = "ready"
       THEN /\ phase' = "unloading"
            /\ tasks' = tasks \cup {Task("onUnload", evSeq + 1, "listAgents", Null, <<>>)}
            /\ evSeq' = evSeq + 1
       ELSE /\ phase' = "unloaded"
            /\ UNCHANGED <<tasks, evSeq>>
    /\ hist' = [hist EXCEPT !.hadPolicy = DOMAIN policies,
                            !.callbacks = IF phase = "ready" THEN @ ELSE Append(@, "null")]
    /\ UNCHANGED <<status, agents, agentOrder, policies, violations, settings, policyCalls,
                   svc, rendererMsgs, activity, persisted, nPersist, now, used, reply>>
    /\ UNCHANGED libVars

\* agentService.deletePolicy(agent.id, state.policies[agent.id].processName)
DeletePolicyCall(a, ev) ==
    [Call("deletePolicy", a, "onUnload", ev) EXCEPT !.processName = {policies[a].processName}]

\* The calls agents.map(...) issues: one for each listed agent that has a
\* policy record, in the order of the list.
RECURSIVE DeleteCalls(_, _)
DeleteCalls(list, ev) ==
    IF list = <<>> THEN <<>>
    ELSE (IF Head(list) \in DOMAIN policies THEN <<DeletePolicyCall(Head(list), ev)>> ELSE <<>>)
         \o DeleteCalls(Tail(list), ev)

\* callback(null) / callback(err) of onUnload.
Callback(arg) == hist' = [hist EXCEPT !.callbacks = Append(@, arg)]

\* Variant: every rejected deletePolicy reaches the catch.
AllSettled_EveryRejection(pending, ok, rest) ==
    IF ~ok THEN "error" ELSE IF pending /\ rest = <<>> THEN "null" ELSE "none"

\* Promise.all(promises).then(...).catch(...) when one more deletePolicy has
\* settled and `rest` are still pending: the first rejection goes to the catch
\* ("error"), the last resolution with none rejected to the then ("null");
\* once the promise has settled (~pending) nothing follows ("none").
AllSettled(pending, ok, rest) ==
    IF ~pending THEN "none"
    ELSE IF ~ok THEN "error"
    ELSE IF rest = <<>> THEN "null" ELSE "none"

\* listAgents settles inside onUnload: an error goes to the catch
\* (callback(err)); otherwise every delete-policy call is issued at once and
\* Promise.all waits for them (with none to wait for, callback(null)).
UnloadListed(t, ok, list) ==
    /\ t \in tasks /\ t.kind = "onUnload" /\ t.pc = "listAgents"
    /\ IF ok
       THEN LET calls == DeleteCalls(list, t.ev)
            IN /\ policyCalls' = policyCalls \o calls
               /\ IF calls = <<>>
                  THEN /\ tasks' = tasks \ {t}
                       /\ phase' = "unloaded"
                       /\ Callback("null")
                  ELSE /\ tasks' = (tasks \ {t}) \cup
                            {[t EXCEPT !.pc = "deletePolicy",
                                       !.todo = [i \in 1..Len(calls) |-> calls[i].agentId]]}
                       /\ UNCHANGED <<phase, hist>>
       ELSE /\ tasks' = tasks \ {t}
            /\ phase' = "unloadFailed"
            /\ Callback("error")
            /\ UNCHANGED policyCalls
    /\ UNCHANGED <<status, agents, agentOrder, policies, violations, settings, svc,
                   rendererMsgs, activity, persisted, nPersist, now, evSeq, used, reply>>
    /\ UNCHANGED libVars

\* One of the pending deletePolicy calls settles. Promise.all rejects with the
\* first rejection (callback(err)) and resolves when every call has resolved
\* (callback(null)); state.policies is left as it is.
UnloadDeleted(t, a, ok) ==
    /\ t \in tasks /\ t.kind = "onUnload" /\ t.pc = "deletePolicy"
    /\ \E i \in 1..Len(t.todo) : t.todo[i] = a
    /\ LET rest == SelectSeq(t.todo, LAMBDA x : x /= a)
           settled == AllSettled(phase = "unloading", ok, rest)
       IN /\ tasks' = IF rest = <<>> THEN tasks \ {t}
                      ELSE (tasks \ {t}) \cup {[t EXCEPT !.todo = rest]}
          /\ phase' = CASE settled = "error" -> "unloadFailed"
                        [] settled = "null" -> "unloaded"
                        [] OTHER -> phase
          /\ IF settled = "none" THEN UNCHANGED hist ELSE Callback(settled)
    /\ svc' = IF ok THEN SvcApply(DeletePolicyCall(a, t.ev)) ELSE svc
    /\ UNCHANGED <<status, agents, agentOrder, policies, violations, settings, policyCalls,
                   rendererMsgs, activity, persisted, nPersist, now, evSeq, used, reply>>
    /\ UNCHANGED libVars

\* ------------------------------------------------- the other request handlers
\* The handlers whose parameter list destructures the request payload:
\* async (event, { agentId, childId }) => ..., { agentId }, { limit = 50 },
\* { settings }.
PayloadHandlers == {"linkAgent", "unlinkAgent", "getViolations", "updateSettings"}

\* A request without a payload to one of them: destructuring undefined raises a
\* TypeError in the parameter list, before the handler's try, so the handler's
\* promise rejects. `max` bounds the requests of a run.
RequestWithoutPayload(handler, max) ==
    /\ phase = "ready"
    /\ handler \in PayloadHandlers
    /\ used["request"] < max
    /\ Use("request")
    /\ reply' = Rejection
    /\ UNCHANGED <<phase, status, agents, agentOrder, policies, violations, settings, tasks,
                   policyCalls, svc, rendererMsgs, activity, persisted, nPersist, now, evSeq,
                   hist>>
    /\ UNCHANGED libVars

\* steam:getAgents and steam:getStatus up to their await of listAgents.
ListRequest(handler, max) ==
    /\ phase = "ready"
    /\ handler \in {"getAgents", "getStatus"}
    /\ used["request"] < max
    /\ Use("request")
    /\ tasks' = tasks \cup {Task(handler, evSeq + 1, "listAgents", Null, <<>>)}
    /\ evSeq' = evSeq + 1
    /\ UNCHANGED <<phase, status, agents, agentOrder, policies, violations, settings,
                   policyCalls, svc, rendererMsgs, activity, persisted, nPersist, now, reply,
                   hist>>
    /\ UNCHANGED libVars

\* listAgents settles inside steam:getAgents / steam:getStatus: the handler
\* returns [null, {...}], or [error] from its catch.
ListRequestSettled(t, ok) ==
    /\ t \in tasks /\ t.kind \in {"getAgents", "getStatus"} /\ t.pc = "listAgents"
    /\ tasks' = tasks \ {t}
    /\ Replied(~ok)
    /\ UNCHANGED <<phase, status, agents, agentOrder, policies, violations, settings,
                   policyCalls, svc, rendererMsgs, activity, persisted, nPersist, now, evSeq,
                   used, hist>>
    /\ UNCHANGED libVars

\* steam:getViolations (with a payload) and steam:getSettings: one step, no
\* effect on the state.
ReadRequest(handler, max) ==
    /\ phase = "ready"
    /\ handler \in {"getViolations", "getSettings"}
    /\ used["request"] < max
    /\ Use("request")
    /\ Replied(FALSE)
    /\ UNCHANGED <<phase, status, agents, agentOrder, policies, violations, settings, tasks,
                   policyCalls, svc, rendererMsgs, activity, persisted, nPersist, now, evSeq,
                   hist>>
    /\ UNCHANGED libVars

\* steam:updateSettings with a payload that has no `settings`: the spread of
\* undefined adds nothing, the state is saved, then settings.checkInterval
\* raises a TypeError inside the try and the handler returns [error].
UpdateSettingsNoSettings(max) ==
    /\ phase = "ready"
    /\ used["request"] < max
    /\ Use("request")
    /\ Persist(agents, policies, violations, settings)
    /\ Replied(TRUE)
    /\ UNCHANGED <<phase, status, agents, agentOrder, policies, violations, settings, tasks,
                   policyCalls, svc, rendererMsgs, activity, now, evSeq, hist>>
    /\ UNCHANGED libVars

\* ---------------------------------------------------------- SteamVDFParser
\* Variant: a cached entry is used whatever the file's modification time.
CacheFresh_IgnoresMtime(entry, f) == TRUE

\* cached.mtime === stats.mtime.getTime()
CacheFresh(entry, f) == entry.mtime = f.mtime

\* parseFile(filePath, useCache) as a function of the disk and the cache held: whether
\* it throws, the object it returns, the cache it leaves and the number of
\* readFileSync calls it makes. With a cache entry it first stats the file
\* (outside its try: a missing file throws there); a fresh entry is returned as
\* it is; otherwise the file is read and decoded, and only then cached.
ParseWith(held, p, useCache) ==
    LET f == fsys.file[p]
        cached == useCache /\ held[p] /= {}
        entry == CHOOSE e \in held[p] : TRUE
        via == IF cached THEN "stale" ELSE "miss"
        failed(n) == [threw |-> TRUE, obj |-> {}, cache |-> held, reads |-> n, via |-> via]
        parsed == [id |-> nextObj, tree |-> VdfTree(f.content)]
    IN IF cached /\ ~f.exists THEN failed(0)
       ELSE IF cached /\ CacheFresh(entry, f)
       THEN [threw |-> FALSE, obj |-> {entry.data}, cache |-> held, reads |-> 0,
             via |-> "hit"]
       ELSE IF ~f.exists \/ VdfThrows(f.content) THEN failed(1)
       ELSE [threw |-> FALSE, obj |-> {parsed},
             cache |-> [held EXCEPT ![p] = {[data |-> parsed, mtime |-> f.mtime]}],
             reads |-> 1, via |-> via]

\* parseFile on the parser's cache as it is.
ParseOutcome(p, useCache) == ParseWith(cache, p, useCache)

\* The effect of one parseFile call on the parser and the counters.
Parsed(res) ==
    /\ cache' = res.cache
    /\ reads' = reads + res.reads
    /\ nextObj' = IF res.cache /= cache THEN nextObj + 1 ELSE nextObj

\* A direct parser.parseFile(p, useCache) call. `max` bounds the calls and disk
\* changes of a run.
ParseFile(p, useCache, max) ==
    /\ libUsed < max
    /\ libUsed' = libUsed + 1
    /\ LET res == ParseOutcome(p, useCache)
       IN /\ Parsed(res)
          /\ out' = [Outcome("parseFile") EXCEPT !.threw = res.threw, !.obj = res.obj,
                                                 !.via = res.via]
    /\ UNCHANGED fsys
    /\ UNCHANGED watched
    /\ UNCHANGED pluginVars

\* A parseFile(p, useCache) call that reads and decodes the file, with a write
\* by another process falling between its readFileSync and the statSync that
\* follows: the tree is the one of the content read, the modification time
\* cached is the one of the file as rewritten.
ParseFileRaced(p, useCache, content, touched, max) ==
    /\ libUsed < max
    /\ libUsed' = libUsed + 1
    /\ LET res == ParseOutcome(p, useCache)
           rewritten == [exists |-> TRUE, content |-> content,
                         mtime |-> IF touched THEN fsys.file[p].mtime + 1
                                   ELSE fsys.file[p].mtime]
       IN /\ ~res.threw /\ res.via /= "hit"
          /\ fsys' = [fsys EXCEPT !.file[p] = rewritten]
          /\ cache' = [cache EXCEPT ![p] =
                          {[data |-> CHOOSE o \in res.obj : TRUE, mtime |-> rewritten.mtime]}]
          /\ reads' = reads + 1
          /\ nextObj' = nextObj + 1
          /\ out' = [Outcome("parseFile") EXCEPT !.obj = res.obj, !.via = res.via]
    /\ UNCHANGED watched
    /\ UNCHANGED pluginVars

\* Variant: an accessor lets the error of parseFile through.
AccessorThrew_Rethrows(res) == res.threw

\* catch (error) { console.error(...); return null } of the accessors (in
\* getInstalledGames: the catch around each manifest): nothing is thrown on.
AccessorThrew(res) == FALSE

\* getParentalSettings(filePath): config.UserLocalConfigStore.parental, or null
\* when a key is missing or parseFile threw.
GetParentalSettings(p, max) ==
    /\ libUsed < max
    /\ libUsed' = libUsed + 1
    /\ LET res == ParseOutcome(p, TRUE)
           found == UNION {UNION {u.parental : u \in o.tree.UserLocalConfigStore} : o \in res.obj}
       IN /\ Parsed(res)
          /\ out' = [Outcome("getParentalSettings") EXCEPT
                        !.threw = AccessorThrew(res),
                        !.val = IF found = {} THEN {"null"} ELSE found]
    /\ UNCHANGED fsys
    /\ UNCHANGED watched
    /\ UNCHANGED pluginVars

\* getPersonaName(filePath): config.UserLocalConfigStore.friends.PersonaName, or
\* null when a key is missing or parseFile threw.
GetPersonaName(p, max) ==
    /\ libUsed < max
    /\ libUsed' = libUsed + 1
    /\ LET res == ParseOutcome(p, TRUE)
           friends == UNION {UNION {u.friends : u \in o.tree.UserLocalConfigStore} : o \in res.obj}
           found == UNION {fr.PersonaName : fr \in friends}
       IN /\ Parsed(res)
          /\ out' = [Outcome("getPersonaName") EXCEPT
                        !.threw = AccessorThrew(res),
                        !.val = IF found = {} THEN {"null"} ELSE found]
    /\ UNCHANGED fsys
    /\ UNCHANGED watched
    /\ UNCHANGED pluginVars

\* f.startsWith('appmanifest_') && f.endsWith('.acf')
IsManifestName(name) == name = AppManifest

\* getInstalledGames(steamappsPath): [] when the directory cannot be listed;
\* otherwise each manifest of the listing is parsed without the cache, a
\* manifest that fails to parse or has no AppState is skipped.
GetInstalledGames(max) ==
    /\ libUsed < max
    /\ libUsed' = libUsed + 1
    /\ LET listing == {p \in Paths : fsys.file[p].exists}
           res == ParseOutcome(AppManifest, FALSE)
           apps == UNION {o.tree.AppState : o \in res.obj}
       IN IF fsys.steamapps /\ \E p \in listing : IsManifestName(p)
          THEN /\ Parsed(res)
               /\ out' = [Outcome("getInstalledGames") EXCEPT
                             !.threw = AccessorThrew(res),
                             !.games = IF apps = {} THEN <<>>
                                       ELSE <<CHOOSE a \in apps : TRUE>>]
          ELSE /\ out' = Outcome("getInstalledGames")
               /\ UNCHANGED <<cache, reads, nextObj>>
    /\ UNCHANGED fsys
    /\ UNCHANGED watched
    /\ UNCHANGED pluginVars

\* The disk changes under the parser: a file is written (its modification time
\* moves on, or stays when the write falls into the same clock tick) ...
WriteFile(p, content, touched, max) ==
    /\ libUsed < max
    /\ libUsed' = libUsed + 1
    /\ fsys' = [fsys EXCEPT !.file[p] =
                  [exists |-> TRUE, content |-> content,
                   mtime |-> IF touched THEN @.mtime + 1 ELSE @.mtime]]
    /\ UNCHANGED <<cache, nextObj, reads, out>>
    /\ UNCHANGED watched
    /\ UNCHANGED pluginVars

\* ... a file is deleted, or the steamapps directory becomes unreadable.
RemoveFromDisk(target, max) ==
    /\ libUsed < max
    /\ libUsed' = libUsed + 1
    /\ fsys' = IF target \in Paths THEN [fsys EXCEPT !.file[target].exists = FALSE]
               ELSE [fsys EXCEPT !.steamapps = FALSE]
    /\ UNCHANGED <<cache, nextObj, reads, out>>
    /\ UNCHANGED watched
    /\ UNCHANGED pluginVars

\* Variant: the listener handles every event type.
IsChange_AnyEvent(eventType) == TRUE

\* if (eventType === 'change')
IsChange(eventType) == eventType = "change"

\* The event types fs.watch reports.
WatchEventTypes == {"change", "rename"}

\* parser.watchFile(p, callback): fs.watch throws when the file does not exist.
WatchFile(p, max) ==
    /\ libUsed < max
    /\ libUsed' = libUsed + 1
    /\ watched' = IF fsys.file[p].exists THEN watched \cup {p} ELSE watched
    /\ out' = [Outcome("watchFile") EXCEPT !.threw = ~fsys.file[p].exists]
    /\ UNCHANGED <<fsys, cache, nextObj, reads>>
    /\ UNCHANGED pluginVars

\* The listener of watchFile gets an event for p. On 'change' the cache entry
\* is deleted and parseFile(p) runs on the cache without it; callback(data) is
\* called with what it returns (out.obj), and when it throws the catch logs the
\* error and the callback is not called. `via` holds the event type.
WatchEvent(p, eventType, max) ==
    /\ p \in watched
    /\ libUsed < max
    /\ libUsed' = libUsed + 1
    /\ IF IsChange(eventType)
       THEN LET res == ParseWith([cache EXCEPT ![p] = {}], p, TRUE)
            IN /\ cache' = res.cache
               /\ reads' = reads + res.reads
               /\ nextObj' = IF res.threw THEN nextObj ELSE nextObj + 1
               /\ out' = [Outcome("watch") EXCEPT !.obj = res.obj, !.via = eventType]
       ELSE /\ out' = [Outcome("watch") EXCEPT !.via = eventType]
            /\ UNCHANGED <<cache, reads, nextObj>>
    /\ UNCHANGED <<fsys, watched>>
    /\ UNCHANGED pluginVars

\* ------------------------------------------------------------- SteamMonitor
\* What os.platform() may return.
OsPlatforms == {"win32", "darwin", "linux", "freebsd", "openbsd", "sunos", "aix", "android"}

\* The table of getProcessNames.
MonitorTable ==
    [p \in {"win32", "darwin", "linux"} |->
        CASE p = "win32" -> <<Steam_exe, steamwebhelper_exe, gameoverlayui_exe>>
          [] p = "darwin" -> <<steam_osx, Steam_app, steamwebhelper>>
          [] OTHER -> <<steam, steamwebhelper, reaper>>]

\* Variant: an unknown platform gets the linux list.
getProcessNames_FallsBackToLinux(platform) ==
    IF platform \in DOMAIN MonitorTable THEN MonitorTable[platform] ELSE MonitorTable["linux"]

\* return processNames[platform] || processNames.win32
getProcessNames(platform) ==
    IF platform \in DOMAIN MonitorTable THEN MonitorTable[platform] ELSE MonitorTable["win32"]

\* Variant: the second entry is taken for the main one.
getMainProcessName_SecondEntry(platform) == getProcessNames(platform)[2]

\* return this.getProcessNames()[0]
getMainProcessName(platform) == getProcessNames(platform)[1]

\* monitor.getProcessNames() on a host of the given platform.
GetProcessNames(platform, max) ==
    /\ libUsed < max
    /\ libUsed' = libUsed + 1
    /\ out' = [Outcome("getProcessNames") EXCEPT
                  !.platform = platform, !.names = getProcessNames(platform)]
    /\ UNCHANGED <<fsys, cache, nextObj, reads>>
    /\ UNCHANGED watched
    /\ UNCHANGED pluginVars

\* monitor.getMainProcessName() on a host of the given platform.
GetMainProcessName(platform, max) ==
    /\ libUsed < max
    /\ libUsed' = libUsed + 1
    /\ out' = [Outcome("getMainProcessName") EXCEPT
                  !.platform = platform, !.names = <<getMainProcessName(platform)>>]
    /\ UNCHANGED <<fsys, cache, nextObj, reads>>
    /\ UNCHANGED watched
    /\ UNCHANGED pluginVars

\* What detectSteamPaths finds on the host's disk: no Steam base directory, the
\* base directory without its config directory, or both.
Installations == {"noBase", "noConfig", "installed"}

\* detectSteamPaths() as a function of the platform, the disk and whether
\* os.homedir() throws (caught: the segments keep their initial null). On a
\* known platform the three segments are joined from the base path, then
\* config alone is reset to null when the config directory does not exist.
detectSteamPaths(platform, disk, homedirThrows) ==
    LET nulls == [config |-> "null", userdata |-> "null", steamapps |-> "null"]
    IN IF platform = "win32" \/ (platform \in {"darwin", "linux"} /\ ~homedirThrows)
       THEN [config |-> IF disk = "installed" THEN "base/config" ELSE "null",
             userdata |-> "base/userdata",
             steamapps |-> "base/steamapps"]
       ELSE nulls

\* monitor.detectSteamPaths() on a host.
DetectSteamPaths(platform, disk, homedirThrows, max) ==
    /\ libUsed < max
    /\ libUsed' = libUsed + 1
    /\ out' = [Outcome("detectSteamPaths") EXCEPT
                  !.platform = platform,
                  !.paths = detectSteamPaths(platform, disk, homedirThrows)]
    /\ UNCHANGED <<fsys, cache, nextObj, reads>>
    /\ UNCHANGED watched
    /\ UNCHANGED pluginVars

\* ------------------------------------------------------------------ inputs
RECURSIVE Perms(_)
Perms(S) ==
    IF S = {} THEN {<<>>}
    ELSE UNION {{<<a>> \o p : p \in Perms(S \ {a})} : a \in S}

\* What listAgents may return: the agents connected at the time, in any order.
Listings == UNION {Perms(S) : S \in SUBSET Agents}

\* stateChange payloads: in the shape the listener reads ({paused, quota}) and
\* in the shape {paused, remainingQuota}.
StatePayloads ==
    {[paused |-> {FALSE}, quota |-> {10}, remainingQuota |-> {}],
     [paused |-> {TRUE},  quota |-> {10}, remainingQuota |-> {}],
     [paused |-> {FALSE}, quota |-> {0},  remainingQuota |-> {}],
     [paused |-> {FALSE}, quota |-> {},   remainingQuota |-> {10}],
     [paused |-> {TRUE},  quota |-> {},   remainingQuota |-> {}]}

\* violation / processDetected payloads: names of the process family in several
\* letter cases, a foreign name, no name; with and without a timestamp.
ProcessData ==
    {[agentId |-> "A1", processName |-> pn, timestamp |-> {}, hostname |-> "h1"] :
        pn \in {{Steam_exe}, {STEAM_EXE}, {gameoverlayui_exe}, {reaper}, {notepad_exe}, {}}}
    \cup {[agentId |-> "A2", processName |-> {Steam_exe}, timestamp |-> {}, hostname |-> "h2"],
          [agentId |-> "A1", processName |-> {Steam_exe}, timestamp |-> {7}, hostname |-> "h1"]}

SettingsPatches ==
    {[checkInterval |-> {60000}, killOnViolation |-> {}, notifyParent |-> {}],
     [checkInterval |-> {0}, killOnViolation |-> {}, notifyParent |-> {}],
     [checkInterval |-> {}, killOnViolation |-> {FALSE}, notifyParent |-> {}],
     [checkInterval |-> {}, killOnViolation |-> {}, notifyParent |-> {FALSE}]}

\* ----------------------------------------------------------- specifications
\* Spec: the authorization path. onLoad configures A1, then agents are linked
\* and unlinked while stateChange handlers run and suspend.
\* A run holds at most MaxAuthOps link, unlink and stateChange events in all.
AuthAgents == {"A1", "A2"}
AuthSubjects == {"S1"}
AuthListings == {<<"A1">>}
LinkOpsLeft == MaxAuthOps - used["stateChange"]
StateChangesLeft == MaxAuthOps - used["linkOp"]

Next ==
    \/ \E b \in BOOLEAN : OnLoad(b)
    \/ \E t \in tasks, ok \in BOOLEAN, list \in AuthListings : OnLoadListed(t, ok, list)
    \/ \E t \in tasks, ok \in BOOLEAN : OnLoadConfigured(t, ok)
    \/ \E a \in AuthAgents, c \in AuthSubjects : LinkAgent(a, c, LinkOpsLeft)
    \/ \E a \in AuthAgents : UnlinkAgent(a, LinkOpsLeft)
    \/ \E c \in AuthSubjects, st \in StatePayloads : StateChange(c, st, StateChangesLeft)
    \/ \E t \in tasks, res \in {"agent", "null", "error"} : GetAgentSettled(t, res)
    \/ \E t \in tasks, ok \in BOOLEAN : UpdatePolicySettled(t, ok)

Spec == Init /\ [][Next]_vars

\* SpecUnlinked: the same with agent discovery and processDetected events.
DetectedData ==
    {[agentId |-> "A1", processName |-> pn, timestamp |-> {}, hostname |-> "h1"] :
        pn \in {{Steam_exe}, {notepad_exe}}}

\* The processDetected payload of SpecUnlinked: a Steam process on agent A1.
UnlinkedDetected ==
    {[agentId |-> "A1", processName |-> {Steam_exe}, timestamp |-> {}, hostname |-> "h1"]}

\* stateChange payloads of SpecUnlinked: one that allows, one that blocks.
UnlinkedPayloads ==
    {[paused |-> {FALSE}, quota |-> {10}, remainingQuota |-> {}],
     [paused |-> {TRUE},  quota |-> {10}, remainingQuota |-> {}]}

\* A run holds at most MaxUnlinkedOps link, discovery and stateChange events in
\* all, and MaxDetectedEvents processDetected events.
OpsUsed == used["stateChange"] + used["linkOp"] + used["agentDiscovered"]
UnlinkedLeft(kind) == MaxUnlinkedOps - (OpsUsed - used[kind])

NextUnlinked ==
    \/ \E b \in BOOLEAN : OnLoad(b)
    \/ \E t \in tasks, ok \in BOOLEAN, list \in AuthListings : OnLoadListed(t, ok, list)
    \/ \E t \in tasks, ok \in BOOLEAN : OnLoadConfigured(t, ok)
    \/ \E a \in AuthAgents : AgentDiscovered(a, UnlinkedLeft("agentDiscovered"))
    \/ \E t \in tasks, ok \in BOOLEAN : DiscoveredConfigured(t, ok)
    \/ \E a \in AuthAgents, c \in Subjects : LinkAgent(a, c, UnlinkedLeft("linkOp"))
    \/ \E a \in AuthAgents : UnlinkAgent(a, UnlinkedLeft("linkOp"))
    \/ \E c \in Subjects, st \in UnlinkedPayloads :
          StateChange(c, st, UnlinkedLeft("stateChange"))
    \/ \E t \in tasks, res \in {"agent", "null", "error"} : GetAgentSettled(t, res)
    \/ \E t \in tasks, ok \in BOOLEAN : UpdatePolicySettled(t, ok)
    \/ \E d \in UnlinkedDetected : ProcessDetected(d, MaxDetectedEvents)

SpecUnlinked == Init /\ [][NextUnlinked]_vars

\* SpecLoad: onLoad over every listing the agent service may return, and
\* agent discovery after it.
NextLoad ==
    \/ \E b \in BOOLEAN : OnLoad(b)
    \/ \E t \in tasks, ok \in BOOLEAN, list \in Listings : OnLoadListed(t, ok, list)
    \/ \E t \in tasks, ok \in BOOLEAN : OnLoadConfigured(t, ok)
    \/ \E a \in Agents : AgentDiscovered(a, MaxDiscovered)
    \/ \E t \in tasks, ok \in BOOLEAN : DiscoveredConfigured(t, ok)

SpecLoad == Init /\ [][NextLoad]_vars

\* SpecSettings: onLoad configures A1 and A2, then steam:updateSettings runs.
SettingsListings == {<<"A1", "A2">>, <<"A2">>}

NextSettings ==
    \/ \E b \in BOOLEAN : OnLoad(b)
    \/ \E t \in tasks, ok \in BOOLEAN, list \in SettingsListings : OnLoadListed(t, ok, list)
    \/ \E t \in tasks, ok \in BOOLEAN : OnLoadConfigured(t, ok)
    \/ \E p \in SettingsPatches : UpdateSettings(p, MaxSettingsUpdates)
    \/ \E t \in tasks, ok \in BOOLEAN, list \in Listings : SettingsListed(t, ok, list)
    \/ \E t \in tasks, ok \in BOOLEAN : SettingsUpdated(t, ok)

SpecSettings == Init /\ [][NextSettings]_vars

\* SpecEvents: violation and processDetected events with varied payloads,
\* under both values of notifyParent and killOnViolation.
EventPatches == {p \in SettingsPatches : p.checkInterval = {}}

NextEvents ==
    \/ \E b \in BOOLEAN : OnLoad(b)
    \/ \E t \in tasks, ok \in BOOLEAN, list \in AuthListings : OnLoadListed(t, ok, list)
    \/ \E t \in tasks, ok \in BOOLEAN : OnLoadConfigured(t, ok)
    \/ \E d \in ProcessData : Violation(d, MaxViolationEvents)
    \/ \E d \in DetectedData : ProcessDetected(d, MaxDetectedEvents)
    \/ ClearViolations
    \/ \E p \in EventPatches : UpdateSettings(p, MaxEventPatches)

SpecEvents == Init /\ [][NextEvents]_vars

\* SpecLog: a long run of violation events, enough to pass the cap of the log.
\* Every record differs from the others by its timestamp (Date.now()).
LogData ==
    {[agentId |-> "A1", processName |-> {Steam_exe}, timestamp |-> {}, hostname |-> "h1"]}

NextLog ==
    \/ \E b \in BOOLEAN : OnLoad(b)
    \/ \E t \in tasks, ok \in BOOLEAN : OnLoadListed(t, ok, <<>>)
    \/ \E d \in LogData : Violation(d, MaxLogEvents)
    \/ \E p \in EventPatches : UpdateSettings(p, MaxEventPatches)

SpecLog == Init /\ [][NextLog]_vars

\* SpecRequests: the request handlers, with and without a payload, while the
\* agent service answers or fails. A run holds at most MaxRequests requests in
\* all.
RequestsUsed == used["request"] + used["linkOp"] + used["updateSettings"]
RequestsLeft(kind) == MaxRequests - (RequestsUsed - used[kind])

NextRequests ==
    \/ \E b \in BOOLEAN : OnLoad(b)
    \/ \E t \in tasks, ok \in BOOLEAN, list \in AuthListings : OnLoadListed(t, ok, list)
    \/ \E t \in tasks, ok \in BOOLEAN : OnLoadConfigured(t, ok)
    \/ \E d \in LogData : Violation(d, MaxViolationEvents)
    \/ \E h \in PayloadHandlers : RequestWithoutPayload(h, RequestsLeft("request"))
    \/ \E h \in {"getAgents", "getStatus"} : ListRequest(h, RequestsLeft("request"))
    \/ \E t \in tasks, ok \in BOOLEAN : ListRequestSettled(t, ok)
    \/ \E h \in {"getViolations", "getSettings"} : ReadRequest(h, RequestsLeft("request"))
    \/ UpdateSettingsNoSettings(RequestsLeft("request"))
    \/ \E c \in AuthSubjects : LinkAgent("A1", c, RequestsLeft("linkOp"))
    \/ UnlinkAgent("A1", RequestsLeft("linkOp"))
    \/ ClearViolations
    \/ \E p \in SettingsPatches : UpdateSettings(p, RequestsLeft("updateSettings"))
    \/ \E t \in tasks, ok \in BOOLEAN, list \in AuthListings : SettingsListed(t, ok, list)
    \/ \E t \in tasks, ok \in BOOLEAN : SettingsUpdated(t, ok)

SpecRequests == Init /\ [][NextRequests]_vars

\* SpecUnload: onLoad configures agents, an agent may be discovered, then the
\* plugin is unloaded while the
\* agent service lists any of the agents and each deletePolicy call resolves or
\* rejects.
NextUnload ==
    \/ \E b \in BOOLEAN : OnLoad(b)
    \/ \E t \in tasks, ok \in BOOLEAN, list \in SettingsListings : OnLoadListed(t, ok, list)
    \/ \E t \in tasks, ok \in BOOLEAN : OnLoadConfigured(t, ok)
    \/ \E a \in Agents : AgentDiscovered(a, MaxDiscovered)
    \/ \E t \in tasks, ok \in BOOLEAN : DiscoveredConfigured(t, ok)
    \/ OnUnload
    \/ \E t \in tasks, ok \in BOOLEAN, list \in Listings : UnloadListed(t, ok, list)
    \/ \E t \in tasks, a \in Agents, ok \in BOOLEAN : UnloadDeleted(t, a, ok)

SpecUnload == Init /\ [][NextUnload]_vars

\* SpecUnloadFair: the same, where every agent-service call that onUnload
\* waits for settles in the end.
SpecUnloadFair ==
    /\ Init /\ [][NextUnload]_vars
    /\ WF_vars(\E t \in tasks, ok \in BOOLEAN, list \in Listings : UnloadListed(t, ok, list))
    /\ WF_vars(\E t \in tasks, a \in Agents, ok \in BOOLEAN : UnloadDeleted(t, a, ok))

\* SpecConfigure: policies are created at onLoad and on agentDiscovered, before
\* and after the settings were changed. A run holds at most MaxConfigureOps
\* agentDiscovered events and steam:updateSettings requests in all.
ConfigureLeft(kind) ==
    MaxConfigureOps - (used["agentDiscovered"] + used["updateSettings"] - used[kind])

NextConfigure ==
    \/ \E b \in BOOLEAN : OnLoad(b)
    \/ \E t \in tasks, ok \in BOOLEAN, list \in AuthListings : OnLoadListed(t, ok, list)
    \/ \E t \in tasks, ok \in BOOLEAN : OnLoadConfigured(t, ok)
    \/ \E a \in AuthAgents : AgentDiscovered(a, ConfigureLeft("agentDiscovered"))
    \/ \E t \in tasks, ok \in BOOLEAN : DiscoveredConfigured(t, ok)
    \/ \E p \in SettingsPatches : UpdateSettings(p, ConfigureLeft("updateSettings"))
    \/ \E t \in tasks, ok \in BOOLEAN, list \in AuthListings : SettingsListed(t, ok, list)
    \/ \E t \in tasks, ok \in BOOLEAN : SettingsUpdated(t, ok)

SpecConfigure == Init /\ [][NextConfigure]_vars

\* SpecStall: violation events arrive while onLoad, or a stateChange handler,
\* is suspended on a call to the agent service (a call that never settles is a
\* suspension that lasts).
NextStall ==
    \/ \E b \in BOOLEAN : OnLoad(b)
    \/ \E t \in tasks, ok \in BOOLEAN, list \in AuthListings : OnLoadListed(t, ok, list)
    \/ \E t \in tasks, ok \in BOOLEAN : OnLoadConfigured(t, ok)
    \/ \E d \in LogData : EmitViolation(d, MaxViolationEvents)
    \/ \E c \in AuthSubjects : LinkAgent("A1", c, LinkOpsLeft)
    \/ \E c \in AuthSubjects, st \in UnlinkedPayloads : StateChange(c, st, StateChangesLeft)
    \/ \E t \in tasks, res \in {"agent", "null", "error"} : GetAgentSettled(t, res)
    \/ \E t \in tasks, ok \in BOOLEAN : UpdatePolicySettled(t, ok)

SpecStall == Init /\ [][NextStall]_vars

\* SpecParser: the parser's methods are called while the files change on disk.
NextParser ==
    \/ \E p \in Paths, c \in Documents, touched \in BOOLEAN : WriteFile(p, c, touched, MaxLibOps)
    \/ \E target \in Paths \cup {"steamapps"} : RemoveFromDisk(target, MaxLibOps)
    \/ \E p \in Paths, useCache \in BOOLEAN : ParseFile(p, useCache, MaxLibOps)
    \/ \E p \in Paths : GetParentalSettings(p, MaxLibOps)
    \/ \E p \in Paths : GetPersonaName(p, MaxLibOps)
    \/ GetInstalledGames(MaxLibOps)

SpecParser == Init /\ [][NextParser]_vars

\* SpecFilter: the violation and processDetected listeners over every payload,
\* with notifyParent and killOnViolation switched by steam:updateSettings. A
\* run holds at most MaxFilterOps events and requests in all.
FilterUsed == used["violation"] + used["processDetected"] + used["updateSettings"]
FilterLeft(kind) == MaxFilterOps - (FilterUsed - used[kind])

NextFilter ==
    \/ \E b \in BOOLEAN : OnLoad(b)
    \/ \E t \in tasks, ok \in BOOLEAN, list \in AuthListings : OnLoadListed(t, ok, list)
    \/ \E t \in tasks, ok \in BOOLEAN : OnLoadConfigured(t, ok)
    \/ \E d \in ProcessData : Violation(d, FilterLeft("violation"))
    \/ \E d \in ProcessData : ProcessDetected(d, FilterLeft("processDetected"))
    \/ \E p \in EventPatches : UpdateSettings(p, FilterLeft("updateSettings"))

SpecFilter == Init /\ [][NextFilter]_vars

\* SpecEnable: onLoad configures the listed agents, then the host disables and
\* enables the plugin.
NextEnable ==
    \/ \E b \in BOOLEAN : OnLoad(b)
    \/ \E t \in tasks, ok \in BOOLEAN, list \in SettingsListings : OnLoadListed(t, ok, list)
    \/ \E t \in tasks, ok \in BOOLEAN : OnLoadConfigured(t, ok)
    \/ \E enabled \in BOOLEAN : OnSetEnabled(enabled, MaxEnableOps)
    \/ \E t \in tasks, ok \in BOOLEAN, list \in SettingsListings : EnableListed(t, ok, list)
    \/ \E t \in tasks, ok \in BOOLEAN : DisableUpdated(t, ok)

SpecEnable == Init /\ [][NextEnable]_vars

\* SpecParserRace: parseFile while another process rewrites and deletes the
\* files, also in the middle of a call.
NextParserRace ==
    \/ \E p \in Paths, c \in Documents, touched \in BOOLEAN : WriteFile(p, c, touched, MaxLibOps)
    \/ \E p \in Paths : RemoveFromDisk(p, MaxLibOps)
    \/ \E p \in Paths, useCache \in BOOLEAN : ParseFile(p, useCache, MaxLibOps)
    \/ \E p \in Paths, useCache \in BOOLEAN, c \in Documents, touched \in BOOLEAN :
          ParseFileRaced(p, useCache, c, touched, MaxLibOps)

SpecParserRace == Init /\ [][NextParserRace]_vars

\* SpecWatch: files are watched, written, deleted and parsed while change and
\* rename events reach the watchers.
NextWatch ==
    \/ \E p \in Paths, c \in Documents, touched \in BOOLEAN : WriteFile(p, c, touched, MaxLibOps)
    \/ \E p \in Paths : RemoveFromDisk(p, MaxLibOps)
    \/ \E p \in Paths : ParseFile(p, TRUE, MaxLibOps)
    \/ \E p \in Paths : WatchFile(p, MaxLibOps)
    \/ \E p \in Paths, type \in WatchEventTypes : WatchEvent(p, type, MaxLibOps)

SpecWatch == Init /\ [][NextWatch]_vars

\* SpecMonitor: the SteamMonitor methods on hosts of every platform.
NextMonitor ==
    \/ \E pl \in OsPlatforms : GetProcessNames(pl, MaxLibOps)
    \/ \E pl \in OsPlatforms : GetMainProcessName(pl, MaxLibOps)
    \/ \E pl \in OsPlatforms, disk \in Installations, homedirThrows \in BOOLEAN :
          DetectSteamPaths(pl, disk, homedirThrows, MaxLibOps)

SpecMonitor == Init /\ [][NextMonitor]_vars

\* ------------------------------------------------------------- properties
\* A step issues a policy call; the call it issues.
Issued == Len(policyCalls') = Len(policyCalls) + 1
NewCall == policyCalls'[Len(policyCalls')]

\* The agent of handler t's current iteration is recorded and linked to the
\* handler's subject.
LinkedToSubject(t) == t.cur \in DOMAIN agents /\ agents[t.cur].childId = t.childId

\* The remaining quota a payload carries, under either field name.
Remaining(st) == st.remainingQuota \cup st.quota

\* C1 (as claimed): when the stateChange handler of an event {paused: false,
\* remainingQuota: q}, q > 0, for subject S reaches agent A (A has a policy, is
\* linked to S, getAgent returned it), it issues updatePolicy(A) with
\* allowed = true.
C1_AllowedOnRemainingQuota ==
    [][\A t \in tasks :
         (/\ GetAgentSettled(t, "agent")
          /\ t.cur \in DOMAIN policies
          /\ LinkedToSubject(t)
          /\ t.st.paused = {FALSE}
          /\ \E q \in t.st.remainingQuota : q > 0)
         => (Issued /\ NewCall.agentId = t.cur /\ NewCall.allowed = {TRUE})]_vars

\* C2: when the stateChange handler of an event that is paused, or whose
\* remaining quota is <= 0 or absent, reaches a linked agent A (getAgent
\* returned it), it issues updatePolicy(A) with allowed = false.
C2_BlockedWhenPausedOrNoQuota ==
    [][\A t \in tasks :
         (/\ GetAgentSettled(t, "agent")
          /\ LinkedToSubject(t)
          /\ (t.st.paused = {TRUE} \/ \A q \in Remaining(t.st) : q <= 0))
         => (Issued /\ NewCall.agentId = t.cur /\ NewCall.op = "updatePolicy"
             /\ NewCall.allowed = {FALSE})]_vars

\* C2's case: a paused event has issued allowed = false for a linked agent
\* that was Allowed (at the agent service and in its record).
C2_Witness ==
    \E t \in tasks :
        /\ t.kind = "stateChange" /\ t.pc = "updatePolicy"
        /\ t.st.paused = {TRUE}
        /\ LinkedToSubject(t)
        /\ TheCall(t).allowed = {FALSE}
        /\ svc[t.cur].hasPolicy /\ svc[t.cur].allowed
        /\ agents[t.cur].allowed = {TRUE}

\* An update-policy call that carries an allowed value.
IsAllowedUpdate(c) == c.op = "updatePolicy" /\ c.allowed /= {}

\* C3: an agent that has a policy and was never linked has had no update-policy
\* call carrying an allowed value, and the agent service holds allowed = false
\* for it.
C3_NeverLinkedStaysBlocked ==
    \A a \in DOMAIN policies :
        a \notin hist.everLinked =>
            /\ \A i \in 1..Len(policyCalls) :
                   policyCalls[i].agentId = a => ~IsAllowedUpdate(policyCalls[i])
            /\ svc[a].hasPolicy /\ ~svc[a].allowed

\* C3's case: a discovered, never linked agent with a policy, after a
\* processDetected event and a completed stateChange that updated another agent.
C3_Witness ==
    /\ tasks = {}
    /\ used["processDetected"] > 0
    /\ \E a \in DOMAIN policies \cap DOMAIN agents :
          /\ a \notin hist.everLinked
          /\ \E i \in 1..Len(policyCalls) :
                /\ IsAllowedUpdate(policyCalls[i])
                /\ policyCalls[i].agentId /= a
                /\ policyCalls[i].allowed = {TRUE}

\* C4 (as claimed): no stateChange handler issues an update-policy call with an
\* allowed value for an agent whose unlinkAgent has returned and that has not
\* been linked again.
C4_NoUpdateAfterUnlink ==
    [][(Issued /\ NewCall.by = "stateChange" /\ IsAllowedUpdate(NewCall))
         => NewCall.agentId \notin hist.unlinked]_vars

\* C5 (as claimed): the update-policy calls that stateChange events for one
\* subject cause for one agent are issued in the events' arrival order.
C5_ArrivalOrder ==
    [][(Issued /\ NewCall.by = "stateChange")
         => \A i \in 1..Len(policyCalls) :
               (/\ policyCalls[i].by = "stateChange"
                /\ policyCalls[i].agentId = NewCall.agentId
                /\ policyCalls[i].child = NewCall.child)
               => policyCalls[i].ev < NewCall.ev]_vars

Min(a, b) == IF a < b THEN a ELSE b

ProcessFamily == UNION {{processNames[p][i] : i \in 1..Len(processNames[p])} : p \in KnownPlatforms}

C8_FamilyViolationAppended ==
    [][\A d \in ProcessData :
         (Violation(d, MaxViolationEvents) /\ d.processName \subseteq ProcessFamily
            /\ d.processName /= {})
         => (violations' /= <<>> /\ violations'[1].processName = d.processName
             /\ violations' /= violations)]_vars

\* An agent the plugin can configure: its platform has a row in the table.
Configurable(a) == ~ConfigureThrows(ServiceAgent(a))

\* C9 (as claimed): when onLoad has finished after a successful listing, a
\* create-policy call was issued for every listed agent that can be configured,
\* whatever happened to the agents listed before it.
C9_LoadFanOutIsolated ==
    (phase = "ready" /\ hist.listed /= {}) =>
        \A list \in hist.listed : \A i \in 1..Len(list) :
            Configurable(list[i]) =>
                \E k \in 1..Len(policyCalls) :
                    /\ policyCalls[k].op = "createPolicy"
                    /\ policyCalls[k].by = "onLoad"
                    /\ policyCalls[k].agentId = list[i]

\* C10 (as claimed): when an update-policy call of steam:updateSettings fails,
\* the call for the next listed agent with a registered policy is still issued.
C10_SettingsFanOutIsolated ==
    [][\A t \in tasks :
         (SettingsUpdated(t, FALSE) /\ FromRegistered(t.todo) /= <<>>)
         => (Issued /\ NewCall.agentId = Head(FromRegistered(t.todo))
             /\ NewCall.checkInterval = {t.interval})]_vars

\* C11 (as claimed): every request handler that has finished returned an array
\* whose first slot is the error and whose second is the result, and when the
\* error is set there is no result (null, or no second slot at all); no handler
\* finished by rejecting.
C11_HandlersAlwaysReturnPair ==
    reply.outcome /= "none" =>
        /\ reply.outcome = "returned"
        /\ reply.slots /= <<>>
        /\ reply.slots[1] /= "null" => Len(reply.slots) = 1 \/ reply.slots[2] = "null"

\* The Plugin State in memory, and the state the host has stored: the one of
\* the last configurationUpdate, or the state onLoad started from.
InMemory == Snapshot(agents, policies, violations, settings)
Stored ==
    IF persisted = {} THEN Snapshot(<<>>, <<>>, <<>>, DefaultSettings)
    ELSE CHOOSE snap \in persisted : TRUE

\* C12 (as claimed): whenever the plugin is loaded and no operation is in
\* progress, the last persisted snapshot equals the in-memory Plugin State.
C12_PersistedAfterEveryMutation ==
    (phase = "ready" /\ tasks = {}) => Stored = InMemory

\* A delete-policy call was issued for agent a.
DeleteIssued(a) ==
    \E i \in 1..Len(policyCalls) :
        policyCalls[i].op = "deletePolicy" /\ policyCalls[i].agentId = a

\* C13 (as claimed): when onUnload's callback has been called without error, a
\* delete-policy call was issued for every agent that had a policy record, and
\* no policy record is left in memory.
C13_UnloadRemovesEveryPolicy ==
    phase = "unloaded" =>
        /\ \A a \in hist.hadPolicy : DeleteIssued(a)
        /\ policies = <<>>

\* The positions in `calls` of the update-policy calls that the
\* steam:updateSettings handler started as number ev issued for agent a.
SettingsCallsFor(calls, ev, a) ==
    {i \in 1..Len(calls) :
        /\ calls[i].by = "updateSettings" /\ calls[i].ev = ev
        /\ calls[i].op = "updatePolicy" /\ calls[i].agentId = a}

\* C14 (as claimed): when a steam:updateSettings request that changes the check
\* interval has finished, it has issued exactly one update-policy call, carrying
\* the new interval and no allowed value, for every agent with a policy record,
\* and none for the other agents.
C14_IntervalReachesEveryPolicy ==
    [][\A t \in tasks :
         (/\ t.kind = "updateSettings"
          /\ \A u \in tasks' : u.ev /= t.ev)
         => \A a \in Agents :
               /\ Cardinality(SettingsCallsFor(policyCalls', t.ev, a))
                    = IF a \in DOMAIN policies THEN 1 ELSE 0
               /\ \A i \in SettingsCallsFor(policyCalls', t.ev, a) :
                     /\ policyCalls'[i].checkInterval = {t.interval}
                     /\ policyCalls'[i].allowed = {}]_vars

\* C15 (as claimed): no create-policy call is issued for an agent whose policy
\* is already registered (it has a policy record, the agent service holds its
\* policy).
C15_NoSecondCreate ==
    [][(Issued /\ NewCall.op = "createPolicy")
         => ~(NewCall.agentId \in DOMAIN policies /\ svc[NewCall.agentId].hasPolicy)]_vars

\* The documented main process name per platform (README, "Process Names by
\* Platform").
MainProcessOf(platform) ==
    CASE platform = "win32" -> Steam_exe
      [] platform = "darwin" -> steam_osx
      [] platform = "linux" -> steam

C18_UnlinkIdempotent ==
    [][\A a \in AuthAgents :
         UnlinkAgent(a, LinkOpsLeft) =>
            /\ reply' = Returned(FALSE)
            /\ DOMAIN agents' = DOMAIN agents
            /\ a \in DOMAIN agents' => (agents'[a].childId = Null /\ ~agents'[a].enabled)
            /\ Unlinked(agents', a) = agents'
            /\ (a \in DOMAIN agents => (agents[a].childId = Null /\ ~agents[a].enabled))
                 => InMemory' = InMemory]_vars

\* C18's case: unlinkAgent has returned success twice in a row for an agent
\* that has a record.
C18_Witness ==
    \E a \in hist.reUnlinked \cap DOMAIN agents :
        /\ agents[a].childId = Null /\ ~agents[a].enabled
        /\ reply = Returned(FALSE)
        /\ persisted = {InMemory}

\* C19: a steam:updateSettings request that carries checkInterval = v makes
\* getSettings() return checkInterval = v with killOnViolation and notifyParent
\* as they were, and what getSettings() returns changes at no other step (so
\* not while the request's fan-out runs or fails either).
C19_SettingsRoundTrip ==
    [][/\ \A p \in SettingsPatches :
            (UpdateSettings(p, MaxSettingsUpdates) /\ p.checkInterval /= {}) =>
               /\ getSettings'.checkInterval \in p.checkInterval
               /\ getSettings'.killOnViolation = getSettings.killOnViolation
               /\ getSettings'.notifyParent = getSettings.notifyParent
       /\ getSettings' /= getSettings =>
            \E p \in SettingsPatches : UpdateSettings(p, MaxSettingsUpdates)]_vars

\* C19's case: the interval was set to 60000 on settings whose killOnViolation
\* was not the default, the request has finished, and getSettings() returns
\* both.
C19_Witness ==
    /\ tasks = {}
    /\ used["updateSettings"] = 2
    /\ getSettings.checkInterval = 60000
    /\ ~getSettings.killOnViolation /\ getSettings.notifyParent

\* C20 (as claimed): a Steam violation event that arrives while some handler is
\* suspended on a call to the agent service (onLoad on createPolicy, a
\* stateChange handler on getAgent or updatePolicy) is handled to completion:
\* its record is at the front of the log and the state is saved.
C20_StallDoesNotBlockEvents ==
    [][\A d \in LogData :
         (EmitViolation(d, MaxViolationEvents) /\ tasks /= {})
         => /\ Len(violations') = Len(violations) + 1
            /\ violations'[1].agentId = d.agentId
            /\ persisted' = {InMemory'}]_vars

\* C21: a parseFile(path) call on a path that has a cache entry and whose file
\* exists: when the file's modification time equals the cached one it returns
\* the cached object itself, reads nothing and leaves the cache as it is; when
\* it differs, the file is read again and, if it decodes, the call returns a
\* new object holding the file's present content and the cache entry becomes
\* that object with the present modification time.
C21_CacheFollowsMtime ==
    [][\A p \in Paths :
         (ParseFile(p, TRUE, MaxLibOps) /\ cache[p] /= {} /\ fsys.file[p].exists) =>
            LET entry == CHOOSE e \in cache[p] : TRUE
                f == fsys.file[p]
            IN /\ entry.mtime = f.mtime =>
                    /\ ~out'.threw /\ out'.obj = {entry.data}
                    /\ reads' = reads /\ cache' = cache
               /\ entry.mtime /= f.mtime =>
                    /\ reads' = reads + 1
                    /\ ~VdfThrows(f.content) =>
                         /\ ~out'.threw
                         /\ \E o \in out'.obj :
                               /\ o.tree = VdfTree(f.content)
                               /\ o.id /= entry.data.id
                               /\ cache'[p] = {[data |-> o, mtime |-> f.mtime]}]_vars

\* C21's case: a file was parsed and cached, then changed on disk with a new
\* modification time, and the next parseFile read it again and replaced the
\* cache entry with the new content.
C21_Witness ==
    \E p \in Paths : \E e \in cache[p] :
        /\ out.op = "parseFile" /\ out.via = "stale" /\ out.obj = {e.data}
        /\ e.data.id = 2 /\ reads = 2
        /\ e.mtime = fsys.file[p].mtime /\ e.mtime > 1
        /\ e.data.tree = VdfTree(fsys.file[p].content)
        /\ e.data.tree /= NoTree
        /\ \A q \in Paths \ {p} : cache[q] = {}

\* C22: on a win32, darwin or linux host getProcessNames returns a list of
\* exactly 3 names whose first is the documented main process name and which
\* is the list configureSteamPolicy uses for that platform, and
\* getMainProcessName returns that first name.
C22_ProcessNameTable ==
    out.platform \in {"win32", "darwin", "linux"} =>
        /\ out.op = "getProcessNames" =>
              /\ Len(out.names) = 3
              /\ out.names[1] = MainProcessOf(out.platform)
              /\ out.names = processNames[out.platform]
        /\ out.op = "getMainProcessName" =>
              out.names = <<MainProcessOf(out.platform)>>

\* C22's case: getMainProcessName was called on a macOS host.
C22_Witness ==
    /\ out.op = "getMainProcessName" /\ out.platform = "darwin"
    /\ out.names = <<steam_osx>>

\* C23: on a host whose platform is none of win32, darwin, linux,
\* getProcessNames does not throw and returns the win32 list.
C23_UnknownPlatformFallsBack ==
    (out.op = "getProcessNames" /\ out.platform \notin {"win32", "darwin", "linux"}) =>
        /\ ~out.threw
        /\ out.names = <<Steam_exe, steamwebhelper_exe, gameoverlayui_exe>>

\* C23's case: getProcessNames was called on a FreeBSD host.
C23_Witness ==
    /\ out.op = "getProcessNames" /\ out.platform = "freebsd"
    /\ ~out.threw /\ out.names[1] = Steam_exe

\* C25 (as claimed): detectSteamPaths does not throw and returns the three
\* segments; when the Steam base directory does not exist, or the platform is
\* not supported, each of the three is null.
C25_PathsNullWithoutSteam ==
    [][\A pl \in OsPlatforms, disk \in Installations, homedirThrows \in BOOLEAN :
         DetectSteamPaths(pl, disk, homedirThrows, MaxLibOps) =>
            /\ ~out'.threw
            /\ (disk = "noBase" \/ pl \notin {"win32", "darwin", "linux"}) =>
                  /\ out'.paths.config = "null"
                  /\ out'.paths.userdata = "null"
                  /\ out'.paths.steamapps = "null"]_vars

\* A read or decode failure awaits parseFile(p, useCache): the file is gone, or
\* its content does not decode and is not shadowed by a fresh cache entry.
ReadOrDecodeFails(p, useCache) ==
    LET f == fsys.file[p]
    IN \/ ~f.exists
       \/ /\ VdfThrows(f.content)
          /\ ~(useCache /\ \E e \in cache[p] : e.mtime = f.mtime)

\* C26: getParentalSettings, getPersonaName and getInstalledGames never throw;
\* the first two return null, and the last an empty list, when reading or
\* decoding fails or the key they look for is absent from the file; a direct
\* parseFile throws on a read or decode failure and leaves the cache as it was.
C26_AccessorsNeverRaise ==
    [][/\ \A p \in Paths :
            LET unread == cache[p] = {} /\ fsys.file[p].exists
                user == VdfTree(fsys.file[p].content).UserLocalConfigStore
            IN /\ GetParentalSettings(p, MaxLibOps) =>
                     /\ ~out'.threw
                     /\ ReadOrDecodeFails(p, TRUE) => out'.val = {"null"}
                     /\ (unread /\ \A u \in user : u.parental = {}) => out'.val = {"null"}
               /\ GetPersonaName(p, MaxLibOps) =>
                     /\ ~out'.threw
                     /\ ReadOrDecodeFails(p, TRUE) => out'.val = {"null"}
                     /\ (unread /\ \A u \in user : \A fr \in u.friends : fr.PersonaName = {})
                           => out'.val = {"null"}
       /\ GetInstalledGames(MaxLibOps) =>
             /\ ~out'.threw
             /\ ( \/ ~fsys.steamapps
                  \/ ReadOrDecodeFails(AppManifest, FALSE)
                  \/ VdfTree(fsys.file[AppManifest].content).AppState = {} )
                   => out'.games = <<>>
       /\ \A p \in Paths, useCache \in BOOLEAN :
             (ParseFile(p, useCache, MaxLibOps) /\ ReadOrDecodeFails(p, useCache)) =>
                 /\ out'.threw
                 /\ cache' = cache]_vars

\* C26's case: localconfig.vdf was parsed and cached, then rewritten with a
\* content that does not decode; getParentalSettings read it again, returned
\* null, and the earlier cache entry is still there.
C26_Witness ==
    /\ out.op = "getParentalSettings" /\ ~out.threw /\ out.val = {"null"}
    /\ reads = 2
    /\ fsys.file[LocalConfig].exists /\ fsys.file[LocalConfig].content = "malformed"
    /\ \E e \in cache[LocalConfig] :
          e.mtime /= fsys.file[LocalConfig].mtime /\ e.data.tree /= NoTree

\* monitoredChildren of steam:getStatus:
\* Object.values(state.agents).filter(a => a.childId).length
monitoredChildren == Cardinality({a \in DOMAIN agents : agents[a].childId /= Null})

\* The subjects that have at least one agent linked to them.
LinkedSubjects == {agents[a].childId : a \in DOMAIN agents} \ {Null}

\* C24 (as claimed): whenever steam:getStatus can answer, the monitoredChildren
\* it reports is the number of distinct subjects with a linked agent.
C24_MonitoredChildrenCountsSubjects ==
    phase = "ready" => monitoredChildren = Cardinality(LinkedSubjects)

\* The allowed value of the last call sent to the agent service for agent a
\* that carried one (a createPolicy, or the updatePolicy of updateSteamPolicy);
\* empty when none was sent.
LastAllowedSent(a) ==
    LET sent == {i \in 1..Len(policyCalls) :
                    policyCalls[i].agentId = a /\ policyCalls[i].allowed /= {}}
    IN IF sent = {} THEN {}
       ELSE policyCalls[CHOOSE i \in sent : \A j \in sent : j <= i].allowed

\* C27 (as claimed): in every state, for an agent that has a policy record and
\* no linked subject, the allowed value last sent to the agent service is false.
C27_UnlinkedAgentStaysBlocked ==
    \A a \in DOMAIN policies :
        (a \notin DOMAIN agents \/ agents[a].childId = Null) => LastAllowedSent(a) = {FALSE}

\* C28 (as claimed): when an update-policy call for agent A has succeeded (the
\* one of updateSteamPolicy carrying allowed, or the one of steam:updateSettings
\* carrying the check interval), state.policies[A] holds the value the call
\* carried.
C28_PolicyRecordMirrorsService ==
    [][\A t \in tasks :
         /\ (UpdatePolicySettled(t, TRUE) /\ t.cur \in DOMAIN policies) =>
               /\ t.cur \in DOMAIN policies'
               /\ policies'[t.cur].allowed \in TheCall(t).allowed
         /\ (SettingsUpdated(t, TRUE) /\ t.cur \in DOMAIN policies) =>
               /\ t.cur \in DOMAIN policies'
               /\ policies'[t.cur].checkInterval \in TheCall(t).checkInterval]_vars

\* C29 (as claimed): the childId a successful steam:linkAgent gave to agent A
\* stays in A's record over every step that is not steam:unlinkAgent(A) or
\* another steam:linkAgent(A, .); in particular over the steps of an
\* agentDiscovered listener for A.
C29_LinkIsStable ==
    [][\A a \in DOMAIN agents :
         agents[a].childId /= Null =>
            \/ a \in DOMAIN agents' /\ agents'[a].childId = agents[a].childId
            \/ UnlinkAgent(a, UnlinkedLeft("linkOp"))
            \/ \E c \in Subjects : LinkAgent(a, c, UnlinkedLeft("linkOp"))]_vars

\* C30 (as claimed): an agentDiscovered event for an agent whose platform is
\* outside the table issues createPolicy for it with the win32 names, and its
\* listener goes on towards recording the agent.
C30_UnknownPlatformConfigured ==
    [][\A a \in Agents :
         (AgentDiscovered(a, MaxDiscovered) /\ PolicyPlatform(ServiceAgent(a)) \notin KnownPlatforms) =>
            /\ Issued
            /\ NewCall.op = "createPolicy" /\ NewCall.agentId = a
            /\ NewCall.processName = {processNames["win32"][1]}
            /\ NewCall.alternatives = {processNames["win32"]}
            /\ \E t \in tasks' : t.kind = "agentDiscovered" /\ t.cur = a]_vars

\* The stateChange listener t goes on after its current agent: suspended on
\* getAgent for the next agent of its list, or ended when there is none.
GoesOn(t) ==
    IF t.todo = <<>>
    THEN \A u \in tasks' : u.ev /= t.ev
    ELSE \E u \in tasks' :
            /\ u.ev = t.ev /\ u.kind = "stateChange" /\ u.pc = "getAgent"
            /\ u.cur = Head(t.todo) /\ u.todo = Tail(t.todo)

\* C31: when getAgent or updatePolicy fails for one agent inside a stateChange
\* listener, no agent record changes, nothing is saved, and the listener goes
\* on with the next agent linked to the subject (or ends normally).
C31_FailureSkipsOnlyThatAgent ==
    [][\A t \in tasks :
         (GetAgentSettled(t, "error") \/ UpdatePolicySettled(t, FALSE)) =>
            /\ agents' = agents /\ policies' = policies
            /\ nPersist' = nPersist /\ persisted' = persisted
            /\ GoesOn(t)]_vars

\* C31's case: A1 and A2 are linked to S1; in one stateChange listener the
\* updatePolicy for A1 (allowed: true) failed, A1's record and policy at the
\* service are as before, and the call for A2 was sent after it.
C31_Witness ==
    /\ "A1" \in DOMAIN agents /\ agents["A1"].allowed = {}
    /\ ~svc["A1"].allowed
    /\ \E i, j \in 1..Len(policyCalls) :
          /\ i < j
          /\ policyCalls[i].by = "stateChange" /\ policyCalls[j].by = "stateChange"
          /\ policyCalls[i].ev = policyCalls[j].ev
          /\ policyCalls[i].agentId = "A1" /\ policyCalls[i].allowed = {TRUE}
          /\ policyCalls[j].agentId = "A2" /\ policyCalls[j].allowed = {TRUE}

\* The name n contains the word w, letter case aside.
CaselessContains(n, w) ==
    \E i \in 0..(Len(n) - Len(w)) : \A k \in 1..Len(w) : ToLowerChar(n[i + k]) = w[k]

\* The event names a process whose name contains 'steam', letter case aside.
NamesSteam(d) == \E n \in d.processName : CaselessContains(n, steamStr)

\* C32: a violation event that names no process, or a process whose name does
\* not contain 'steam' (letter case aside), changes no part of the plugin's
\* state, forwards nothing, logs no activity and saves nothing; one whose name
\* contains it in any letter case is appended to the log.
C32_ForeignViolationIgnored ==
    [][\A d \in ProcessData :
         Violation(d, FilterLeft("violation")) =>
            IF NamesSteam(d)
            THEN /\ violations' /= <<>>
                 /\ violations'[1].processName = d.processName
                 /\ violations'[1].agentId = d.agentId
                 /\ Len(hist'.appended) = Len(hist.appended) + 1
            ELSE /\ agents' = agents /\ policies' = policies
                 /\ violations' = violations /\ settings' = settings
                 /\ rendererMsgs' = rendererMsgs
                 /\ activity' = activity
                 /\ nPersist' = nPersist /\ persisted' = persisted]_vars

\* C32's case: of two violation events one (no Steam process) was ignored and
\* the other, for 'STEAM.EXE', was appended.
C32_Witness ==
    /\ used["violation"] = 2
    /\ Len(violations) = 1 /\ violations[1].processName = {STEAM_EXE}
    /\ Len(hist.appended) = 1 /\ activity = 1

C34_DetectedOnlyNotifies ==
    [][\A d \in ProcessData :
         ProcessDetected(d, FilterLeft("processDetected")) =>
            /\ agents' = agents /\ policies' = policies
            /\ violations' = violations /\ settings' = settings
            /\ policyCalls' = policyCalls /\ tasks' = tasks
            /\ activity' = activity
            /\ nPersist' = nPersist /\ persisted' = persisted
            /\ IF NamesSteam(d)
               THEN /\ Len(rendererMsgs') = Len(rendererMsgs) + 1
                    /\ SubSeq(rendererMsgs', 1, Len(rendererMsgs)) = rendererMsgs
                    /\ rendererMsgs'[Len(rendererMsgs')] =
                         [channel |-> "steamDetected",
                          payload |-> [agentId |-> d.agentId, processName |-> d.processName,
                                       timestamp |-> IF d.timestamp = {} THEN now
                                                     ELSE CHOOSE ts \in d.timestamp : TRUE]]
               ELSE rendererMsgs' = rendererMsgs]_vars

\* C34's case: after a Steam violation was logged, a processDetected event for
\* Steam.exe forwarded its notification and the log and the saved state stayed.
C34_Witness ==
    /\ used["processDetected"] = 1
    /\ Len(violations) = 1 /\ Stored.violations = violations /\ nPersist >= 1
    /\ rendererMsgs /= <<>>
    /\ rendererMsgs[Len(rendererMsgs)].channel = "steamDetected"
    /\ rendererMsgs[Len(rendererMsgs)].payload.processName = {Steam_exe}

\* The entry of key b is the same in the maps f and g (present in both with
\* one value, or absent from both).
SameEntry(f, g, b) ==
    IF b \in DOMAIN f THEN b \in DOMAIN g /\ g[b] = f[b] ELSE b \notin DOMAIN g

\* A step of an operation that targets agent a: the end of an agentDiscovered
\* listener for a, the end of an updatePolicy for a inside a stateChange
\* listener, steam:linkAgent or steam:unlinkAgent for a.
Targets(a) ==
    \/ \E t \in tasks, ok \in BOOLEAN :
          t.cur = a /\ (DiscoveredConfigured(t, ok) \/ UpdatePolicySettled(t, ok))
    \/ \E c \in Subjects : LinkAgent(a, c, UnlinkedLeft("linkOp"))
    \/ UnlinkAgent(a, UnlinkedLeft("linkOp"))

\* C35: a step of an operation that targets agent A changes neither the agent
\* record nor the policy record of any other agent, whatever handlers are
\* suspended at the time.
C35_CrossAgentIsolation ==
    [][\A a \in Agents :
         Targets(a) =>
            \A b \in Agents \ {a} :
               SameEntry(agents, agents', b) /\ SameEntry(policies, policies', b)]_vars

\* C35's case: A1 was linked to S1 and allowed by a stateChange; afterwards A2
\* was discovered and configured, and A1's record and policy are still there.
C35_Witness ==
    /\ agentOrder = <<"A1", "A2">>
    /\ agents["A1"].childId = "S1" /\ agents["A1"].allowed = {TRUE}
    /\ agents["A2"].childId = Null
    /\ "A1" \in DOMAIN policies /\ "A2" \in DOMAIN policies

\* C36 (as claimed): when onSetEnabled(true) has run after onSetEnabled(false)
\* (the status is 'active' and no onSetEnabled call is still running), every
\* policy that was sent enabled: false has since been sent enabled: true.
C36_EnableRestoresPolicies ==
    (status = "active" /\ \A t \in tasks : t.kind /= "onSetEnabled") =>
        \A i \in 1..Len(policyCalls) :
            policyCalls[i].enabled = {FALSE} =>
                \E j \in (i + 1)..Len(policyCalls) :
                    /\ policyCalls[j].agentId = policyCalls[i].agentId
                    /\ policyCalls[j].enabled = {TRUE}

C38_EntryPairsTreeWithItsMtime ==
    [][\A p \in Paths :
         \A e \in cache'[p] \ cache[p] :
            /\ e.data.tree = VdfTree(fsys.file[p].content)
            /\ e.mtime = fsys.file[p].mtime]_vars

\* C39: for a watched path, a 'change' event drops the cache entry, parses the
\* file anew and calls the callback once with the new tree, which is then the
\* cached one; when the parse fails the callback is not called, nothing is
\* thrown and the entry stays dropped; an event of another type leaves the
\* cache alone and calls nothing; the watch stays in place in every case.
C39_ChangeEventReparses ==
    [][\A p \in Paths, type \in WatchEventTypes :
         WatchEvent(p, type, MaxLibOps) =>
            LET f == fsys.file[p]
            IN /\ ~out'.threw
               /\ watched' = watched
               /\ \A q \in Paths \ {p} : cache'[q] = cache[q]
               /\ IF type /= "change"
                  THEN cache' = cache /\ out'.obj = {}
                  ELSE IF f.exists /\ ~VdfThrows(f.content)
                  THEN /\ out'.obj = {[id |-> nextObj, tree |-> VdfTree(f.content)]}
                       /\ cache'[p] = {[data |-> [id |-> nextObj, tree |-> VdfTree(f.content)],
                                        mtime |-> f.mtime]}
                       /\ reads' = reads + 1
                  ELSE out'.obj = {} /\ cache'[p] = {}]_vars

\* C39's case: localconfig.vdf was watched and parsed, then rewritten within
\* the same modification time; the 'change' event read it again and handed the
\* callback a new object with the present content.
C39_Witness ==
    /\ out.op = "watch" /\ out.via = "change"
    /\ LocalConfig \in watched
    /\ reads = 2
    /\ \E o \in out.obj :
          /\ o.id = 2
          /\ o.tree = VdfTree(fsys.file[LocalConfig].content) /\ o.tree /= NoTree
          /\ cache[LocalConfig] = {[data |-> o, mtime |-> 1]}

====
